---- MODULE Spec2Model ----
\* confgo: the configuration manager's merge / reload / validate / watch
\* orchestration (ConfigManager), modelled from the Go sources.
EXTENDS Integers, Sequences, FiniteSets, TLC

VARIABLES
    \* --- ConfigManager fields -------------------------------------------
    constructor,      \* cm.constructor: which ConstructorFunc was supplied
    loaders,          \* cm.loaders: ordered sequence of Loader records
    validators,       \* cm.validators: positional ValidateFunc list
    namedValidators,  \* cm.namedValidators: name -> ValidateFunc
    isRunning,        \* cm.isRunning (atomic.Bool)
    current,          \* cm.current: the published snapshot
    \* --- execution state --------------------------------------------------
    procs,            \* one record per goroutine: caller and change callbacks
    nextId,           \* number of instances the constructor has handed to reloads
    watchCalls,       \* per loader: Watch calls the manager made on its notifier
    stopCalls,        \* per loader: Stop calls the manager made on its notifier
    lastCall,         \* the call that returned in the last step, if any
    \* --- ModTimeWatcher fields and goroutines ----------------------------
    stopClosed,       \* per loader: its watcher's stop channel has been closed
    pollers,          \* per loader: its watcher's polling goroutines, by state
    \* --- direct calls of cm.validate (unit level) -------------------------
    validateOut,      \* per call: the validators it ran, in order, and its result
    \* --- cm.mu (sync.RWMutex) and the callers of cm.Config() ---------------
    mu,               \* who is inside Lock(), who holds the lock, for write or read
    configCalls,      \* per reader goroutine: where it stands and what it got
    acquired,         \* the reloads whose cm.mu.Lock() returned, in order
    \* --- direct calls of cm.merge (unit level) ----------------------------
    mergeArgs,        \* <<dst, src>> handed to cm.merge
    mergeOut,         \* result of that call, or "none" before it ran
    \* --- ModTimeWatcher change detection ----------------------------------
    lastMod,          \* fw.lastMod of the ModTimeWatcher under watch
    modTime,          \* what its ModTimer's ModTime() returns at this moment
    pollLog,          \* its polls so far: what each observed and did
    \* --- options and formatters (unit level) ------------------------------
    opts,             \* the validator options NewConfigManager was given
    parseArgs,        \* raw handed to EnvFormatter.parseRawIntoMap
    parseOut          \* the map that call returned, or "none" before it ran

vars == <<constructor, loaders, validators, namedValidators, isRunning, current,
          procs, nextId, watchCalls, stopCalls, lastCall, stopClosed, pollers,
          validateOut, mu, configCalls, acquired, mergeArgs, mergeOut,
          lastMod, modTime, pollLog, opts, parseArgs, parseOut>>

managerVars == <<constructor, loaders, validators, namedValidators, isRunning,
                 current, procs, nextId, watchCalls, stopCalls, lastCall>>

mergeVars == <<mergeArgs, mergeOut>>

watcherVars == <<stopClosed, pollers>>

validateVars == <<validateOut>>

lockVars == <<mu, configCalls, acquired>>

pollVars == <<lastMod, modTime, pollLog>>

optionVars == <<opts>>

parseVars == <<parseArgs, parseOut>>

unitVars == <<pollVars, optionVars, parseVars>>

-----------------------------------------------------------------------------
\* Bounds of the model.

\* Largest number of fields of a TestConfig that differ from their zero value
\* in the records handed directly to cm.merge.
MaxSetFields == 1

-----------------------------------------------------------------------------
\* Go values of the configuration types used by the repository's tests.

\* A Go pointer is <<>> when nil and <<pointee>> otherwise.
NilPtr == <<>>

Ptr(v) == <<v>>

IsNilPtr(p) == p = <<>>

\* map[string]string: nil, or the set of present keys with their values.
MapKeys == {"a", "b"}

MapVals == {"", "x"}

NilMap == [nil |-> TRUE, keys |-> {}, val |-> [k \in MapKeys |-> ""]]

MkMap(ks, f) == [nil |-> FALSE, keys |-> ks,
                 val |-> [k \in MapKeys |-> IF k \in ks THEN f[k] ELSE ""]]

MapValues == {NilMap} \cup
             {MkMap(ks, f) : ks \in SUBSET MapKeys, f \in [MapKeys -> MapVals]}

\* []string: nil, or a (possibly empty) sequence.
NilSlice == [nil |-> TRUE, elems |-> <<>>]

MkSlice(s) == [nil |-> FALSE, elems |-> s]

SliceValues == {NilSlice, MkSlice(<<>>), MkSlice(<<"p">>), MkSlice(<<"q">>),
                MkSlice(<<"p", "q">>)}

\* testInnerConfig{Int, String}
InnerValues == [Int : {0, 1}, String : {"", "s"}]

ZeroInner == [Int |-> 0, String |-> ""]

\* The value at which the test types' Validate and Merge report an error.
InvalidInt == 123

IntPtrValues == {NilPtr, Ptr(0), Ptr(1), Ptr(2)}

InnerPtrValues == {NilPtr} \cup {Ptr(v) : v \in InnerValues}

\* TestConfig{Int, IntPtr, Inner, InnerPtr, Map, Slice}, all fields zero.
ZeroConfig == [Int |-> 0, IntPtr |-> NilPtr, Inner |-> ZeroInner,
               InnerPtr |-> NilPtr, Map |-> NilMap, Slice |-> NilSlice]

FieldNames == {"Int", "IntPtr", "Inner", "InnerPtr", "Map", "Slice"}

FieldValues(f) ==
    CASE f = "Int"      -> {0, 1, 2}
      [] f = "IntPtr"   -> IntPtrValues
      [] f = "Inner"    -> InnerValues
      [] f = "InnerPtr" -> InnerPtrValues
      [] f = "Map"      -> MapValues
      [] f = "Slice"    -> SliceValues

\* reflect.Value.IsZero on one field of a TestConfig.
FieldIsZero(c, f) == c[f] = ZeroConfig[f]

AllConfigs == [Int : FieldValues("Int"), IntPtr : FieldValues("IntPtr"),
               Inner : FieldValues("Inner"), InnerPtr : FieldValues("InnerPtr"),
               Map : FieldValues("Map"), Slice : FieldValues("Slice")]

SetFields(c) == {f \in FieldNames : ~FieldIsZero(c, f)}

\* Every TestConfig of the model with at most k fields away from zero.
MergeConfigs(k) == {c \in AllConfigs : Cardinality(SetFields(c)) <= k}

-----------------------------------------------------------------------------
\* dario.cat/mergo deepMerge under mergo.WithOverride, as cm.merge calls it,
\* kind by kind for the kinds a TestConfig holds.

\* Variants of MergeScalar: one that lets an empty src overwrite, one that
\* keeps a non-empty dst (mergo without WithOverride).
MergeScalarZeroWins(dst, src, zero) == src

MergeScalarKeepDst(dst, src, zero) == IF dst = zero THEN src ELSE dst

\* int, string (default case): a non-empty src overwrites, an empty one never.

MergeScalar(dst, src, zero) == IF src # zero THEN src ELSE dst

\* testInnerConfig (struct with exported fields): field by field.
MergeInner(dst, src) ==
    [Int    |-> MergeScalar(dst.Int, src.Int, 0),
     String |-> MergeScalar(dst.String, src.String, "")]

\* Variant of MergeIntPtr: a nil dst is left nil.
MergeIntPtrKeepNil(dst, src) ==
    IF IsNilPtr(src) \/ IsNilPtr(dst) THEN dst
    ELSE Ptr(MergeScalar(dst[1], src[1], 0))

\* *int: a nil src is skipped, a nil dst takes src, otherwise the pointees
\* are merged as ints.
MergeIntPtr(dst, src) ==
    IF IsNilPtr(src) THEN dst
    ELSE IF IsNilPtr(dst) THEN src
    ELSE Ptr(MergeScalar(dst[1], src[1], 0))

\* Variant of MergeInnerPtr: a non-nil src replaces dst, pointee and all.
MergeInnerPtrReplace(dst, src) == IF IsNilPtr(src) THEN dst ELSE src

\* *testInnerConfig: as *int, the pointees merged as structs.
MergeInnerPtr(dst, src) ==
    IF IsNilPtr(src) THEN dst
    ELSE IF IsNilPtr(dst) THEN src
    ELSE Ptr(MergeInner(dst[1], src[1]))

\* Variant of MergeMap: a non-nil src replaces dst.
MergeMapReplace(dst, src) == IF src.nil THEN dst ELSE src

\* map[string]string: a nil dst is made when src is not nil, then every key of
\* src is set in dst (string elements are overwritten whatever their value).

MergeMap(dst, src) ==
    IF src.nil THEN dst
    ELSE [nil  |-> FALSE,
          keys |-> dst.keys \cup src.keys,
          val  |-> [k \in MapKeys |-> IF k \in src.keys THEN src.val[k]
                                      ELSE dst.val[k]]]

\* []string: a src of length > 0 replaces dst, an empty or nil one is skipped.

MergeSlice(dst, src) == IF Len(src.elems) > 0 THEN src ELSE dst

\* TestConfig (struct with exported fields): field by field.
DeepMerge(dst, src) ==
    [Int      |-> MergeScalar(dst.Int, src.Int, 0),
     IntPtr   |-> MergeIntPtr(dst.IntPtr, src.IntPtr),
     Inner    |-> MergeInner(dst.Inner, src.Inner),
     InnerPtr |-> MergeInnerPtr(dst.InnerPtr, src.InnerPtr),
     Map      |-> MergeMap(dst.Map, src.Map),
     Slice    |-> MergeSlice(dst.Slice, src.Slice)]

-----------------------------------------------------------------------------
\* Values of type `any`: nil, a value held directly, or a pointer to one.
\* The pointee of the types that are no configuration record (int, struct{})
\* plays no part in a merge and is kept at ZeroConfig.

ConfigTypes == {"TestConfig", "TestConfigAsMerger", "TestConfigAsValidator"}

OtherTypes == {"int", "struct{}"}

NilAny == [kind |-> "nil", type |-> "nil", val |-> ZeroConfig]

PtrTo(t, v) == [kind |-> "ptr", type |-> t, val |-> v]

ValueOf(t, v) == [kind |-> "value", type |-> t, val |-> v]

WithInt(n) == [ZeroConfig EXCEPT !.Int = n]

\* Records used where the shape of the arguments, not their fields, matters.
ShapeConfigs == {ZeroConfig, WithInt(1), WithInt(2), WithInt(InvalidInt)}

ShapeValues ==
    {NilAny}
    \cup {[kind |-> k, type |-> t, val |-> v] :
             k \in {"value", "ptr"}, t \in ConfigTypes, v \in ShapeConfigs}
    \cup {[kind |-> k, type |-> t, val |-> ZeroConfig] :
             k \in {"value", "ptr"}, t \in OtherTypes}

\* error values: what failed, and for a validator its name or index.
Err(e) == [e |-> e, name |-> "", index |-> -1]

NoErr == Err("nil")

\* reflect.Kind of what a pointer of type t points to.
ElemKind(t) == IF t = "int" THEN "int" ELSE "struct"

MergeResult(e, d) == [err |-> e, dst |-> d]

\* Variant of MergoMerge: no argument checks.
MergoMergeNoChecks(dst, src) ==
    MergeResult(NoErr, [dst EXCEPT !.val = DeepMerge(dst.val, src.val)])

\* mergo.Merge(dst, src, mergo.WithOverride): the argument checks, then deepMerge.
MergoMerge(dst, src) ==
    IF dst.kind # "nil" /\ dst.kind # "ptr"
      THEN MergeResult(Err("ErrNonPointerArgument"), dst)
    ELSE IF dst.kind = "nil" \/ src.kind = "nil"
      THEN MergeResult(Err("ErrNilArguments"), dst)
    ELSE IF ElemKind(dst.type) # "struct"
      THEN MergeResult(Err("ErrNotSupported"), dst)
    ELSE IF dst.type # src.type
      THEN MergeResult(Err("ErrDifferentArgumentsTypes"), dst)
    ELSE MergeResult(NoErr, [dst EXCEPT !.val = DeepMerge(dst.val, src.val)])

\* dst.(Merger): only *TestConfigAsMerger has a Merge method.
ImplementsMerger(v) == v.kind = "ptr" /\ v.type = "TestConfigAsMerger"

\* (*TestConfigAsMerger).Merge(other)
CustomMerge(c, other) ==
    IF ~(other.kind = "ptr" /\ other.type = "TestConfigAsMerger")
      THEN MergeResult(Err("error converting other config"), c)
    ELSE IF c.val.Int = InvalidInt
      THEN MergeResult(Err("test merge error"), c)
    ELSE MergeResult(NoErr, [c EXCEPT !.val.Int = other.val.Int + 1])

\* Variant of merge: the Merger check is missing.
mergeAlwaysGeneric(dst, src) == MergoMerge(dst, src)

\* cm.merge(dst, src)
merge(dst, src) ==
    IF ImplementsMerger(dst) THEN CustomMerge(dst, src)
    ELSE MergoMerge(dst, src)

-----------------------------------------------------------------------------
\* The manager's collaborators.

\* Most loaders AddLoader registers.
MaxLoaders == 2

\* Most reloads (constructor calls for an accumulator) in one behaviour.
MaxReloads == 3

\* ConstructorFunc values: nil, or a function returning the named shape.
InvalidConstructors == {"nil", "value", "ptrInt", "nonzero"}

Constructors == InvalidConstructors \cup ConfigTypes

\* cm.constructor()
Construct(c) ==
    CASE c = "value"   -> ValueOf("TestConfig", ZeroConfig)
      [] c = "ptrInt"  -> PtrTo("int", ZeroConfig)
      [] c = "nonzero" -> PtrTo("TestConfig", WithInt(1))
      [] OTHER         -> PtrTo(c, ZeroConfig)

\* What a Loader's Watcher field holds: nil, one of the package's two
\* notifiers, or some other implementation of the Watcher interface
\* ("Watcher": it keeps the callback, may invoke it at any time, and its Stop
\* may return an error).
WatcherKinds == {"nil", "Watcher", "TriggerWatcher", "ModTimeWatcher"}

\* Loader{Source, Formatter, Watcher, OnUpdateSuccess, OnUpdateError}:
\* a boolean field is TRUE where the Go field is not nil.
Loader(src, fmt, w, ok, ko) ==
    [Source |-> src, Formatter |-> fmt, Watcher |-> w,
     OnUpdateSuccess |-> ok, OnUpdateError |-> ko]

LoaderKinds == {Loader(TRUE, TRUE, "nil", FALSE, FALSE),
                Loader(TRUE, TRUE, "Watcher", FALSE, FALSE),
                Loader(FALSE, TRUE, "nil", FALSE, FALSE),
                Loader(TRUE, FALSE, "nil", FALSE, FALSE)}

LoaderIds == 1 .. (MaxLoaders + 1)

\* ValidateFunc values: nil, or a function (a closure, whose verdict is its
\* own business each time it is called).
ValidatorKinds == {"nil", "fn"}

ValidatorNames == {"n"}

NoNamed == [x \in {} |-> "fn"]

\* What a source holds when it is read: nothing readable, or a document.
ReadError == "unreadable"

BadDocument == "{bad"

DocInt1 == "{int:1}"

DocInt2Inner == "{int:2,inner:{string:s}}"

DocIntBeforeInvalid == "{int:122}"

DocIntInvalid == "{int:123}"

\* Formatter.Unmarshal(data, temp) into a zero-valued temp: the decoded record.
DocConfig(doc) ==
    CASE doc = DocInt1             -> WithInt(1)
      [] doc = DocInt2Inner        -> [WithInt(2) EXCEPT !.Inner.String = "s"]
      [] doc = DocIntBeforeInvalid -> WithInt(InvalidInt - 1)
      [] doc = DocIntInvalid       -> WithInt(InvalidInt)
      [] OTHER                     -> ZeroConfig

\* The documents the sources are given, by configuration type: each type gets
\* the ones that reach its own error branches.
Documents(c) ==
    CASE c = "TestConfigAsMerger"    -> {DocInt2Inner, DocIntBeforeInvalid}
      [] c = "TestConfigAsValidator" -> {DocInt1, DocIntInvalid}
      [] OTHER                       -> {BadDocument, DocInt1, DocInt2Inner}

\* What a read of a source can give: TestConfig's sources are readable and
\* may hold a document that does not decode, the others may be unreadable.
ReadResults(c) ==
    IF c = "TestConfig" THEN Documents(c) ELSE {ReadError} \cup Documents(c)

-----------------------------------------------------------------------------
\* Pre-flight validation.

\* (*Loader).validate
loaderValidate(l) ==
    IF ~l.Source THEN Err("ErrSourceIsNil")
    ELSE IF ~l.Formatter THEN Err("ErrFormatterIsNil")
    ELSE NoErr

\* cm.validateConstructor
validateConstructor ==
    IF constructor = "nil" THEN Err("ErrConstructorIsNil")
    ELSE IF Construct(constructor).kind # "ptr"
            \/ ElemKind(Construct(constructor).type) # "struct"
      THEN Err("ErrConstructorMustBePointer")
    ELSE IF Construct(constructor).val # ZeroConfig
      THEN Err("ErrConstructorMustReturnZeroStruct")
    ELSE NoErr

BadLoaders == {i \in 1 .. Len(loaders) : loaderValidate(loaders[i]) # NoErr}

Min(S) == CHOOSE x \in S : \A y \in S : x <= y

\* cm.validatePreRunState
validatePreRunStateLoadersUnchecked ==
    IF validateConstructor # NoErr THEN validateConstructor
    ELSE IF \E n \in DOMAIN namedValidators : namedValidators[n] = "nil"
      THEN Err("ErrValidatorIsNil")
    ELSE IF \E i \in 1 .. Len(validators) : validators[i] = "nil"
      THEN Err("ErrValidatorIsNil")
    ELSE NoErr

\* Variant of validatePreRunState: the named validators are not checked.
validatePreRunStateNamedUnchecked ==
    IF validateConstructor # NoErr THEN validateConstructor
    ELSE IF \E i \in 1 .. Len(validators) : validators[i] = "nil"
      THEN Err("ErrValidatorIsNil")
    ELSE IF Len(loaders) = 0 THEN Err("ErrNoLoadersDefined")
    ELSE IF BadLoaders # {} THEN loaderValidate(loaders[Min(BadLoaders)])
    ELSE NoErr

validatePreRunState ==
    IF validateConstructor # NoErr THEN validateConstructor
    ELSE IF \E n \in DOMAIN namedValidators : namedValidators[n] = "nil"
      THEN Err("ErrValidatorIsNil")
    ELSE IF \E i \in 1 .. Len(validators) : validators[i] = "nil"
      THEN Err("ErrValidatorIsNil")
    ELSE IF Len(loaders) = 0 THEN Err("ErrNoLoadersDefined")
    ELSE IF BadLoaders # {} THEN loaderValidate(loaders[Min(BadLoaders)])
    ELSE NoErr

-----------------------------------------------------------------------------
\* cm.validate(config): the results it can have. The type's own Validate comes
\* first; then every registered function may be the first one to fail.

\* config.(Validator): only *TestConfigAsValidator has a Validate method.
ImplementsValidator(v) == v.kind = "ptr" /\ v.type = "TestConfigAsValidator"

\* The validator functions of the manager, each named as the error that
\* wraps its own: "named validator %q", "validator %d".
NamedCall(n) == [e |-> "named validator", name |-> n, index |-> -1]

PositionalCall(i) == [e |-> "validator", name |-> "", index |-> i - 1]

ValidatorFuncs ==
    {NamedCall(n) : n \in DOMAIN namedValidators}
    \cup {PositionalCall(i) : i \in 1 .. Len(validators)}

\* The orders in which `range cm.namedValidators` can visit the map: Go
\* leaves the iteration order of a map unspecified, and varies it from one
\* loop to the next.
MapOrders ==
    {o \in [1 .. Cardinality(DOMAIN namedValidators) -> DOMAIN namedValidators] :
        \A j, k \in DOMAIN o : j # k => o[j] # o[k]}

\* Variant of validateRun: every validator is called, and the first error
\* is returned at the end.
validateRunAll(config, order, failing) ==
    LET own   == IF ImplementsValidator(config)
                   THEN <<Err("Validate")>> ELSE <<>>
        funcs == [k \in 1 .. Len(order) |-> NamedCall(order[k])]
                 \o [i \in 1 .. Len(validators) |-> PositionalCall(i)]
        bad   == {k \in 1 .. Len(funcs) : funcs[k] \in failing}
    IN  IF ImplementsValidator(config) /\ config.val.Int = InvalidInt
          THEN [calls |-> own \o funcs, err |-> Err("test validation error")]
        ELSE IF bad = {}
          THEN [calls |-> own \o funcs, err |-> NoErr]
        ELSE [calls |-> own \o funcs, err |-> funcs[Min(bad)]]

\* cm.validate(config) when the map is visited in `order` and the functions
\* in `failing` return an error: the calls made, in order, and the result.
validateRun(config, order, failing) ==
    LET own   == IF ImplementsValidator(config)
                   THEN <<Err("Validate")>> ELSE <<>>
        funcs == [k \in 1 .. Len(order) |-> NamedCall(order[k])]
                 \o [i \in 1 .. Len(validators) |-> PositionalCall(i)]
        bad   == {k \in 1 .. Len(funcs) : funcs[k] \in failing}
    IN  IF ImplementsValidator(config) /\ config.val.Int = InvalidInt
          THEN [calls |-> own, err |-> Err("test validation error")]
        ELSE IF bad = {}
          THEN [calls |-> own \o funcs, err |-> NoErr]
        ELSE [calls |-> own \o SubSeq(funcs, 1, Min(bad)),
              err |-> funcs[Min(bad)]]

\* cm.validate(config): the results it can return.
validate(config) ==
    {validateRun(config, o, f).err :
        o \in MapOrders, f \in SUBSET ValidatorFuncs}

-----------------------------------------------------------------------------
\* Goroutines: the caller of Start/Stop/AddLoader, and the notifiers' change
\* callbacks (each slot is one invocation in flight).

Callers == {"main"}

CallbackThreads == {"cb1", "cb2"}

\* The slot of a notifier that fires one change callback at a time.
SerialCallbacks == {"cb1"}

\* Goroutines of the program that call cm.Config().
Readers == {"r1"}

\* The goroutines that call cm.Config(): the readers, and a change callback
\* from inside its loader's OnUpdateSuccess.
ConfigCallers == Readers \cup CallbackThreads

\* Two goroutines of the program that call cm.Start() at the same time.
ConcurrentCallers == {"main", "main2"}

Threads == Callers \cup ConcurrentCallers \cup CallbackThreads

\* Idle callback slots are taken in this order.
Slot(t) == IF t = "cb1" THEN 1 ELSE 2

Event(e, l) == [e |-> e, l |-> l]

\* pc: where the goroutine stands; op: the call it runs; i, n, merged:
\* reload's loop index, len(cm.loaders) and accumulator; id: which constructed
\* instance merged is; err: the error in hand; l: the loader variable the
\* change callback closed over. History kept beside them:
\* reads (the documents this reload decoded), seen (the snapshot exposed when
\* this reload began), log (the calls Start or Stop has made).
IdleProc == [pc |-> "idle", op |-> "none", i |-> 0, n |-> 0,
             merged |-> NilAny, id |-> 0, reads |-> <<>>, seen |-> 0,
             log |-> <<>>, err |-> NoErr, l |-> 0]

\* cm.current = nil
NoSnapshot == [id |-> 0, cfg |-> NilAny, reads |-> <<>>]

\* cm.Config()
Config == current

NoCall == [op |-> "none", err |-> NoErr, log |-> <<>>]

NoMergeArgs == <<NilAny, NilAny>>

NoMergeOut == [done |-> FALSE, err |-> NoErr, dst |-> NilAny]

\* The goroutines ModTimeWatcher.Watch started that wait in their select:
\* armed, with a timer set while the stop channel was open; late, with one
\* set after it was closed.
NoPollers == [armed |-> 0, late |-> 0]

NoValidateOut == <<>>

\* cm.mu unlocked: no goroutine inside Lock(), none holding it exclusively,
\* none holding it for reading.
NoLock == [w |-> {}, held |-> {}, r |-> {}]

\* time.Time{}: the zero time, for which IsZero() is true.
ZeroTime == 0

\* NewConfigManager(constructor) called with no validator option.
NoOptions == <<>>

\* No raw bytes handed to parseRawIntoMap.
NoRaw == <<>>

NoParseOut == [done |-> FALSE, res |-> [nil |-> TRUE, m |-> <<>>]]

\* A reader outside cm.Config() that has not called it yet.
IdleReader == [pc |-> "idle", got |-> NoSnapshot]

Named(k) == [x \in ValidatorNames |-> k]

\* The validators the options register: <<positional list, named map>>.
NilValidatorSetups == {<<<<"nil">>, NoNamed>>, <<<<>>, Named("nil")>>}

\* The managers built: a constructor without options, TestConfigAsValidator
\* with validator functions beside its own Validate, TestConfig with a nil
\* validator.
Setups == {<<c, <<>>, NoNamed>> : c \in Constructors \ {"TestConfigAsValidator"}}
          \cup {<<"TestConfigAsValidator", <<"fn">>, Named("fn")>>}
          \cup {<<"TestConfig", vs[1], vs[2]>> : vs \in NilValidatorSetups}

\* NewConfigManager(constructor, opts...): the state after construction.
Init ==
    /\ \E su \in Setups :
          /\ constructor = su[1]
          /\ validators = su[2]
          /\ namedValidators = su[3]
    /\ loaders = <<>>
    /\ isRunning = FALSE
    /\ current = NoSnapshot
    /\ procs = [t \in Threads |-> IdleProc]
    /\ nextId = 0
    /\ watchCalls = [l \in LoaderIds |-> 0]
    /\ stopCalls = [l \in LoaderIds |-> 0]
    /\ lastCall = NoCall
    /\ stopClosed = [l \in LoaderIds |-> FALSE]
    /\ pollers = [l \in LoaderIds |-> NoPollers]
    /\ validateOut = NoValidateOut
    /\ mu = NoLock
    /\ configCalls = [r \in ConfigCallers |-> IdleReader]
    /\ acquired = <<>>
    /\ lastMod = ZeroTime
    /\ modTime = ZeroTime
    /\ pollLog = <<>>
    /\ opts = NoOptions
    /\ parseArgs = NoRaw
    /\ parseOut = NoParseOut
    /\ mergeArgs = NoMergeArgs
    /\ mergeOut = NoMergeOut

\* Leaving a Start or Stop call with its result.
Return(t, op, err, log) ==
    /\ procs' = [procs EXCEPT ![t] = IdleProc]
    /\ lastCall' = [op |-> op, err |-> err, log |-> log]

\* Variant of BeginReload: the accumulator starts from the exposed snapshot.
BeginReloadFromCurrent(p) ==
    [p EXCEPT !.merged = IF current.id = 0 THEN Construct(constructor)
                         ELSE current.cfg,
              !.id = nextId + 1,
              !.n = Len(loaders), !.i = 1, !.reads = <<>>,
              !.seen = current.id,
              !.pc = IF Len(loaders) = 0 THEN "validate" ELSE "load"]

\* Variant of BeginReload: the reload works on the exposed instance itself.
BeginReloadInPlace(p) ==
    [p EXCEPT !.merged = IF current.id = 0 THEN Construct(constructor)
                         ELSE current.cfg,
              !.id = IF current.id = 0 THEN nextId + 1 ELSE current.id,
              !.n = Len(loaders), !.i = 1, !.reads = <<>>,
              !.seen = current.id,
              !.pc = IF Len(loaders) = 0 THEN "validate" ELSE "load"]

\* merged := cm.constructor(); for _, l := range cm.loaders
BeginReload(p) ==
    [p EXCEPT !.merged = Construct(constructor), !.id = nextId + 1,
              !.n = Len(loaders), !.i = 1, !.reads = <<>>,
              !.seen = current.id,
              !.pc = IF Len(loaders) = 0 THEN "validate" ELSE "load"]

\* cm.AddLoader(l), called before the manager is started.
AddLoader(k) ==
    /\ procs["main"].pc = "idle"
    /\ nextId = 0
    /\ Len(loaders) < MaxLoaders
    /\ loaders' = Append(loaders, k)
    /\ lastCall' = NoCall
    /\ UNCHANGED <<constructor, validators, namedValidators, isRunning, current,
                   procs, nextId, watchCalls, stopCalls, mergeVars, watcherVars,
                   validateVars, lockVars, unitVars>>

\* Variant of StartCall: the isRunning check is missing.
StartCallAlways(t) ==
    /\ procs[t].pc = "idle"
    /\ procs' = [procs EXCEPT ![t] =
                    [IdleProc EXCEPT !.pc = "preflight", !.op = "Start"]]
    /\ lastCall' = NoCall
    /\ UNCHANGED <<constructor, loaders, validators, namedValidators, isRunning,
                   current, nextId, watchCalls, stopCalls, mergeVars, watcherVars,
                   validateVars, lockVars, unitVars>>

\* cm.Start(): the isRunning check.
StartCall(t) ==
    /\ procs[t].pc = "idle"
    /\ IF isRunning
         THEN /\ lastCall' = [op |-> "Start", err |-> NoErr, log |-> <<>>]
              /\ UNCHANGED procs
         ELSE /\ procs' = [procs EXCEPT ![t] =
                              [IdleProc EXCEPT !.pc = "preflight", !.op = "Start"]]
              /\ lastCall' = NoCall
    /\ UNCHANGED <<constructor, loaders, validators, namedValidators, isRunning,
                   current, nextId, watchCalls, stopCalls, mergeVars, watcherVars,
                   validateVars, lockVars, unitVars>>

\* cm.Start(): validatePreRunState, then the first statement of reload.
Preflight(t) ==
    /\ procs[t].pc = "preflight"
    /\ IF validatePreRunState # NoErr
         THEN /\ Return(t, "Start", validatePreRunState, procs[t].log)
              /\ UNCHANGED nextId
         ELSE /\ nextId < MaxReloads
              /\ procs' = [procs EXCEPT ![t] =
                    BeginReload([@ EXCEPT !.log = <<Event("preflight", 0)>>])]
              /\ nextId' = nextId + 1
              /\ lastCall' = NoCall
    /\ UNCHANGED <<constructor, loaders, validators, namedValidators, isRunning,
                   current, watchCalls, stopCalls, mergeVars, watcherVars,
                   validateVars, lockVars, unitVars>>

\* Variant of Fail: the snapshot is dropped.
FailClearsSnapshot(t, err, log) ==
    /\ current' = NoSnapshot
    /\ IF procs[t].op = "Start"
      THEN Return(t, "Start", err, log)
      ELSE /\ procs' = [procs EXCEPT ![t] =
                         [IdleProc EXCEPT !.pc = "notify", !.op = procs[t].op,
                                          !.l = procs[t].l, !.id = procs[t].id,
                                          !.err = err]]
           /\ lastCall' = NoCall

\* Variant of Fail: Start goes on to runWatchers after a failed reload.
FailStartGoesOn(t, err, log) ==
    /\ UNCHANGED current
    /\ lastCall' = NoCall
    /\ IF procs[t].op = "Start"
      THEN procs' = [procs EXCEPT ![t] =
                        [@ EXCEPT !.pc = "runWatchers", !.log = log]]
      ELSE procs' = [procs EXCEPT ![t] =
                        [IdleProc EXCEPT !.pc = "notify", !.op = procs[t].op,
                                         !.l = procs[t].l, !.id = procs[t].id,
                                         !.err = err]]

\* Variant of Fail: Start too reports a failed reload to the first loader's
\* OnUpdateError.
FailNotifiesAlways(t, err, log) ==
    /\ UNCHANGED current
    /\ procs' = [procs EXCEPT ![t] =
                    [IdleProc EXCEPT !.pc = "notify", !.op = procs[t].op,
                                     !.l = IF procs[t].op = "Start" THEN 1
                                           ELSE procs[t].l,
                                     !.id = procs[t].id, !.err = err]]
    /\ lastCall' = NoCall

\* A reload that failed: Start returns the error, a change callback goes on
\* to its loader's OnUpdateError.
Fail(t, err, log) ==
    /\ UNCHANGED current
    /\ IF procs[t].op = "Start"
      THEN Return(t, "Start", err, log)
      ELSE /\ procs' = [procs EXCEPT ![t] =
                         [IdleProc EXCEPT !.pc = "notify", !.op = procs[t].op,
                                          !.l = procs[t].l, !.id = procs[t].id,
                                          !.err = err]]
           /\ lastCall' = NoCall

\* Variant of Load: a loader that cannot be read or decoded is skipped and
\* the loop goes on to the next one.
LoadGoesOn(t) ==
    /\ procs[t].pc = "load"
    /\ \E r \in ReadResults(constructor) :
         LET p    == procs[t]
             rd   == Append(p.log, Event("Read", p.i))
             un   == Append(rd, Event("Unmarshal", p.i))
             mg   == Append(un, Event("merge", p.i))
             temp == [Construct(constructor) EXCEPT !.val = DocConfig(r)]
             res  == merge(p.merged, temp)
             skip == r = ReadError \/ r = BadDocument
         IN  IF ~skip /\ res.err # NoErr THEN Fail(t, res.err, mg)
             ELSE /\ procs' = [procs EXCEPT ![t] =
                        [p EXCEPT !.merged = IF skip THEN @ ELSE res.dst,
                                  !.reads = IF skip THEN @ ELSE Append(@, r),
                                  !.log = IF r = ReadError THEN rd
                                          ELSE IF skip THEN un ELSE mg,
                                  !.i = p.i + 1,
                                  !.pc = IF p.i = p.n THEN "validate" ELSE "load"]]
                  /\ lastCall' = NoCall
                  /\ UNCHANGED current
    /\ UNCHANGED <<constructor, loaders, validators, namedValidators, isRunning,
                   nextId, watchCalls, stopCalls, mergeVars, watcherVars,
                   validateVars, lockVars, unitVars>>

\* One iteration of reload's loop: Read, Unmarshal into a fresh temp, merge.
Load(t) ==
    /\ procs[t].pc = "load"
    /\ \E r \in ReadResults(constructor) :
         LET p    == procs[t]
             rd   == Append(p.log, Event("Read", p.i))
             un   == Append(rd, Event("Unmarshal", p.i))
             mg   == Append(un, Event("merge", p.i))
             temp == [Construct(constructor) EXCEPT !.val = DocConfig(r)]
             res  == merge(p.merged, temp)
         IN  IF r = ReadError THEN Fail(t, Err("read error"), rd)
             ELSE IF r = BadDocument THEN Fail(t, Err("unmarshal error"), un)
             ELSE IF res.err # NoErr THEN Fail(t, res.err, mg)
             ELSE /\ procs' = [procs EXCEPT ![t] =
                        [p EXCEPT !.merged = res.dst,
                                  !.reads = Append(p.reads, r),
                                  !.log = mg,
                                  !.i = p.i + 1,
                                  !.pc = IF p.i = p.n THEN "validate" ELSE "load"]]
                  /\ lastCall' = NoCall
                  /\ UNCHANGED current
    /\ UNCHANGED <<constructor, loaders, validators, namedValidators, isRunning,
                   nextId, watchCalls, stopCalls, mergeVars, watcherVars,
                   validateVars, lockVars, unitVars>>

\* The end of reload: cm.validate(merged), then
\* cm.mu.Lock(); cm.current = merged; cm.mu.Unlock()
ValidateSwap(t) ==
    /\ procs[t].pc = "validate"
    /\ \E err \in validate(procs[t].merged) :
         LET log == Append(procs[t].log, Event("validate", 0))
         IN  IF err # NoErr THEN Fail(t, err, log)
             ELSE /\ current' = [id |-> procs[t].id, cfg |-> procs[t].merged,
                                 reads |-> procs[t].reads]
                  /\ procs' = [procs EXCEPT ![t] =
                        [IdleProc EXCEPT
                            !.pc = IF procs[t].op = "Start" THEN "runWatchers"
                                   ELSE "notify",
                            !.op = procs[t].op,
                            !.l = procs[t].l,
                            !.id = IF procs[t].op = "Start" THEN 0
                                   ELSE procs[t].id,
                            !.log = IF procs[t].op = "Start"
                                      THEN Append(log, Event("swap", 0))
                                      ELSE <<>>]]
                  /\ lastCall' = NoCall
    /\ UNCHANGED <<constructor, loaders, validators, namedValidators, isRunning,
                   nextId, watchCalls, stopCalls, mergeVars, watcherVars,
                   validateVars, lockVars, unitVars>>

WatcherLoaders == {l \in 1 .. Len(loaders) : loaders[l].Watcher # "nil"}

ModTimeLoaders ==
    {l \in 1 .. Len(loaders) : loaders[l].Watcher = "ModTimeWatcher"}

\* Variant of RunWatchers: Watch is called for every loader.
RunWatchersAllLoaders(t) ==
    /\ procs[t].pc = "runWatchers"
    /\ watchCalls' = [l \in LoaderIds |->
                         IF l <= Len(loaders) THEN watchCalls[l] + 1
                         ELSE watchCalls[l]]
    /\ procs' = [procs EXCEPT ![t] =
          [@ EXCEPT !.pc = "store", !.log = Append(@, Event("runWatchers", 0))]]
    /\ lastCall' = NoCall
    /\ UNCHANGED <<constructor, loaders, validators, namedValidators, isRunning,
                   current, nextId, stopCalls, mergeVars, watcherVars,
                   validateVars, lockVars, unitVars>>

\* cm.runWatchers(): Watch on every loader's watcher. ModTimeWatcher.Watch
\* starts one more polling goroutine, which enters its select.
RunWatchers(t) ==
    /\ procs[t].pc = "runWatchers"
    /\ watchCalls' = [l \in LoaderIds |->
                         IF l \in WatcherLoaders THEN watchCalls[l] + 1
                         ELSE watchCalls[l]]
    /\ pollers' = [l \in LoaderIds |->
                      IF l \notin ModTimeLoaders THEN pollers[l]
                      ELSE IF stopClosed[l]
                        THEN [pollers[l] EXCEPT !.late = @ + 1]
                      ELSE [pollers[l] EXCEPT !.armed = @ + 1]]
    /\ procs' = [procs EXCEPT ![t] =
          [@ EXCEPT !.pc = "store", !.log = Append(@, Event("runWatchers", 0))]]
    /\ lastCall' = NoCall
    /\ UNCHANGED <<constructor, loaders, validators, namedValidators, isRunning,
                   current, nextId, stopCalls, stopClosed, mergeVars,
                   validateVars, lockVars, unitVars>>

\* cm.isRunning.Store(true); return nil
SetRunning(t) ==
    /\ procs[t].pc = "store"
    /\ isRunning' = TRUE
    /\ Return(t, "Start", NoErr, Append(procs[t].log, Event("store", 0)))
    /\ UNCHANGED <<constructor, loaders, validators, namedValidators, current,
                   nextId, watchCalls, stopCalls, mergeVars, watcherVars,
                   validateVars, lockVars, unitVars>>

\* The notifier of loader l can invoke the callback it was handed: a
\* ModTimeWatcher has a polling goroutine whose timer was set before the stop
\* channel was closed; any other notifier has been handed the callback.
CanFire(l) ==
    /\ l \in WatcherLoaders
    /\ IF l \in ModTimeLoaders THEN pollers[l].armed > 0 ELSE watchCalls[l] > 0

\* A notifier invokes the callback runWatchers registered on it for loader l:
\* the callback begins cm.reload().
Trigger(t, l) ==
    /\ procs[t].pc = "idle"
    /\ \A u \in CallbackThreads : procs[u].pc = "idle" => Slot(t) <= Slot(u)
    /\ CanFire(l)
    /\ nextId < MaxReloads
    /\ procs' = [procs EXCEPT ![t] =
                    BeginReload([IdleProc EXCEPT !.op = "callback", !.l = l])]
    /\ nextId' = nextId + 1
    /\ pollers' = IF l \in ModTimeLoaders
                    THEN [pollers EXCEPT ![l].armed = @ - 1]
                    ELSE pollers
    /\ lastCall' = NoCall
    /\ UNCHANGED <<constructor, loaders, validators, namedValidators, isRunning,
                   current, watchCalls, stopCalls, stopClosed, mergeVars,
                   validateVars, lockVars, unitVars>>

\* The callback of loader l invokes, with the error of its reload:
\* OnUpdateError(err) or OnUpdateSuccess() of l, if that one is set.
CallbackEvents(l, err) ==
    IF err # NoErr
      THEN IF loaders[l].OnUpdateError
             THEN <<Event("OnUpdateError", l)>> ELSE <<>>
      ELSE IF loaders[l].OnUpdateSuccess
             THEN <<Event("OnUpdateSuccess", l)>> ELSE <<>>

\* What the callback of loader l does with the error of its reload, as a call
\* that returned: none when the callback to invoke is nil.
CallbackCall(l, err) ==
    IF CallbackEvents(l, err) = <<>> THEN NoCall
    ELSE [op |-> "callback", err |-> err, log |-> CallbackEvents(l, err)]

\* Variant of Notify: every callback reads the loop variable of runWatchers
\* as the loop left it, the last loader.
NotifyLastLoader(t) ==
    /\ procs[t].pc = "notify"
    /\ procs' = [procs EXCEPT ![t] = IdleProc]
    /\ lastCall' = CallbackCall(Len(loaders), procs[t].err)
    /\ pollers' = IF procs[t].l \notin ModTimeLoaders THEN pollers
                  ELSE IF stopClosed[procs[t].l]
                    THEN [pollers EXCEPT ![procs[t].l].late = @ + 1]
                  ELSE [pollers EXCEPT ![procs[t].l].armed = @ + 1]
    /\ UNCHANGED <<constructor, loaders, validators, namedValidators, isRunning,
                   current, nextId, watchCalls, stopCalls, stopClosed, mergeVars,
                   validateVars, lockVars, unitVars>>

\* Variant of Notify: a failed reload is run again instead of being reported.
NotifyRetries(t) ==
    /\ procs[t].pc = "notify"
    /\ IF procs[t].err # NoErr /\ nextId < MaxReloads
         THEN /\ procs' = [procs EXCEPT ![t] =
                    BeginReload([IdleProc EXCEPT !.op = "callback",
                                                 !.l = procs[t].l])]
              /\ nextId' = nextId + 1
              /\ lastCall' = NoCall
              /\ UNCHANGED pollers
         ELSE /\ procs' = [procs EXCEPT ![t] = IdleProc]
              /\ lastCall' = CallbackCall(procs[t].l, procs[t].err)
              /\ pollers' = IF procs[t].l \notin ModTimeLoaders THEN pollers
                            ELSE IF stopClosed[procs[t].l]
                              THEN [pollers EXCEPT ![procs[t].l].late = @ + 1]
                            ELSE [pollers EXCEPT ![procs[t].l].armed = @ + 1]
              /\ UNCHANGED nextId
    /\ UNCHANGED <<constructor, loaders, validators, namedValidators, isRunning,
                   current, watchCalls, stopCalls, stopClosed, mergeVars,
                   validateVars, lockVars, unitVars>>

\* The rest of the callback: OnUpdateError(err) or OnUpdateSuccess(), if set.
\* A ModTimeWatcher's goroutine then goes back to its select, on a new timer.
Notify(t) ==
    /\ procs[t].pc = "notify"
    /\ procs' = [procs EXCEPT ![t] = IdleProc]
    /\ lastCall' = CallbackCall(procs[t].l, procs[t].err)
    /\ pollers' = IF procs[t].l \notin ModTimeLoaders THEN pollers
                  ELSE IF stopClosed[procs[t].l]
                    THEN [pollers EXCEPT ![procs[t].l].late = @ + 1]
                  ELSE [pollers EXCEPT ![procs[t].l].armed = @ + 1]
    /\ UNCHANGED <<constructor, loaders, validators, namedValidators, isRunning,
                   current, nextId, watchCalls, stopCalls, stopClosed, mergeVars,
                   validateVars, lockVars, unitVars>>

PollerStates == {"armed", "late"}

\* A polling goroutine of loader l's ModTimeWatcher, in state k, takes
\* `case <-fw.stop` and returns.
PollExit(l, k) ==
    /\ l \in ModTimeLoaders
    /\ stopClosed[l]
    /\ pollers[l][k] > 0
    /\ pollers' = [pollers EXCEPT ![l][k] = @ - 1]
    /\ lastCall' = NoCall
    /\ UNCHANGED <<constructor, loaders, validators, namedValidators, isRunning,
                   current, procs, nextId, watchCalls, stopCalls, stopClosed,
                   mergeVars, validateVars, lockVars, unitVars>>

\* Variant of StopCall: the isRunning check is missing.
StopCallAlways(t) ==
    /\ procs[t].pc = "idle"
    /\ procs' = [procs EXCEPT ![t] =
                    [IdleProc EXCEPT !.pc = "stopWatchers", !.op = "Stop"]]
    /\ lastCall' = NoCall
    /\ UNCHANGED <<constructor, loaders, validators, namedValidators, isRunning,
                   current, nextId, watchCalls, stopCalls, mergeVars, watcherVars,
                   validateVars, lockVars, unitVars>>

\* cm.Stop(): the isRunning check.
StopCall(t) ==
    /\ procs[t].pc = "idle"
    /\ IF ~isRunning
         THEN /\ lastCall' = [op |-> "Stop", err |-> NoErr, log |-> <<>>]
              /\ UNCHANGED procs
         ELSE /\ procs' = [procs EXCEPT ![t] =
                              [IdleProc EXCEPT !.pc = "stopWatchers", !.op = "Stop"]]
              /\ lastCall' = NoCall
    /\ UNCHANGED <<constructor, loaders, validators, namedValidators, isRunning,
                   current, nextId, watchCalls, stopCalls, mergeVars, watcherVars,
                   validateVars, lockVars, unitVars>>

\* ModTimeWatcher.Stop is close(fw.stop): on a channel that is closed already
\* it panics.
Panicking == {l \in ModTimeLoaders : stopClosed[l]}

\* The loaders whose watcher's Stop the loop of cm.Stop reaches.
StopReached ==
    IF Panicking = {} THEN WatcherLoaders
    ELSE {l \in WatcherLoaders : l <= Min(Panicking)}

\* The Stop calls of the loop in loader order, with the loaders whose call
\* returned an error.
StopEvents(reached, failing) ==
    SelectSeq([l \in 1 .. Len(loaders) |->
                  Event(IF l \in failing THEN "Stop error" ELSE "Stop", l)],
              LAMBDA ev : ev.l \in reached)

\* The error cm.Stop returns for the errors its loop collected.
StopError(failing) ==
    IF failing = {} THEN NoErr
    ELSE [e |-> "stop running watchers", name |-> "",
          index |-> Cardinality(failing)]

\* Variant of StopWatchers: the loop ends at the first watcher whose Stop
\* returns an error.
StopWatchersShortCircuit(t) ==
    /\ procs[t].pc = "stopWatchers"
    /\ \E failing \in SUBSET {l \in StopReached : loaders[l].Watcher = "Watcher"} :
         LET reached == IF failing = {} THEN StopReached
                        ELSE {l \in StopReached : l <= Min(failing)}
             failed  == IF failing = {} THEN {} ELSE {Min(failing)}
         IN  /\ procs' = [procs EXCEPT ![t] =
                   [@ EXCEPT !.pc = IF Panicking = {} \/ failing # {}
                                      THEN "stopped" ELSE "panicking",
                             !.log = @ \o StopEvents(reached, failed),
                             !.err = StopError(failed)]]
             /\ stopCalls' = [l \in LoaderIds |->
                                 IF l \in reached THEN stopCalls[l] + 1
                                 ELSE stopCalls[l]]
             /\ stopClosed' = [l \in LoaderIds |->
                                  stopClosed[l]
                                  \/ (l \in reached /\ l \in ModTimeLoaders)]
    /\ lastCall' = NoCall
    /\ UNCHANGED <<constructor, loaders, validators, namedValidators, isRunning,
                   current, nextId, watchCalls, pollers, mergeVars,
                   validateVars, lockVars, unitVars>>

\* Variant of StopWatchers: ModTimeWatcher.Stop leaves its channel open.
StopWatchersNoClose(t) ==
    /\ procs[t].pc = "stopWatchers"
    /\ \E failing \in SUBSET {l \in WatcherLoaders : loaders[l].Watcher = "Watcher"} :
         procs' = [procs EXCEPT ![t] =
            [@ EXCEPT !.pc = "stopped",
                      !.log = @ \o StopEvents(WatcherLoaders, failing),
                      !.err = StopError(failing)]]
    /\ stopCalls' = [l \in LoaderIds |->
                        IF l \in WatcherLoaders THEN stopCalls[l] + 1
                        ELSE stopCalls[l]]
    /\ lastCall' = NoCall
    /\ UNCHANGED <<constructor, loaders, validators, namedValidators, isRunning,
                   current, nextId, watchCalls, stopClosed, pollers, mergeVars,
                   validateVars, lockVars, unitVars>>

\* cm.Stop(): Stop on every loader's watcher; `failing` are those returning
\* an error, which only a watcher from outside the package does.
StopWatchers(t) ==
    /\ procs[t].pc = "stopWatchers"
    /\ \E failing \in SUBSET {l \in StopReached : loaders[l].Watcher = "Watcher"} :
         procs' = [procs EXCEPT ![t] =
            [@ EXCEPT !.pc = IF Panicking = {} THEN "stopped" ELSE "panicking",
                      !.log = @ \o StopEvents(StopReached, failing),
                      !.err = StopError(failing)]]
    /\ stopCalls' = [l \in LoaderIds |->
                        IF l \in StopReached THEN stopCalls[l] + 1
                        ELSE stopCalls[l]]
    /\ stopClosed' = [l \in LoaderIds |->
                         stopClosed[l]
                         \/ (l \in StopReached /\ l \in ModTimeLoaders)]
    /\ lastCall' = NoCall
    /\ UNCHANGED <<constructor, loaders, validators, namedValidators, isRunning,
                   current, nextId, watchCalls, pollers, mergeVars,
                   validateVars, lockVars, unitVars>>

\* Variant of StopDone: Stop clears the snapshot on its way out.
StopDoneClearsSnapshot(t) ==
    /\ procs[t].pc \in {"stopped", "panicking"}
    /\ isRunning' = FALSE
    /\ current' = NoSnapshot
    /\ IF procs[t].pc = "stopped"
         THEN Return(t, "Stop", procs[t].err, procs[t].log)
         ELSE /\ procs' = [procs EXCEPT ![t] =
                    [IdleProc EXCEPT !.pc = "crashed", !.op = "Stop"]]
              /\ lastCall' = [op |-> "Stop",
                              err |-> Err("panic: close of closed channel"),
                              log |-> procs[t].log]
    /\ UNCHANGED <<constructor, loaders, validators, namedValidators,
                   nextId, watchCalls, stopCalls, mergeVars, watcherVars,
                   validateVars, lockVars, unitVars>>

\* cm.Stop(): the deferred cm.isRunning.Store(false), and the return; a panic
\* of the loop runs the deferred call too and then ends the program.
StopDone(t) ==
    /\ procs[t].pc \in {"stopped", "panicking"}
    /\ isRunning' = FALSE
    /\ IF procs[t].pc = "stopped"
         THEN Return(t, "Stop", procs[t].err, procs[t].log)
         ELSE /\ procs' = [procs EXCEPT ![t] =
                    [IdleProc EXCEPT !.pc = "crashed", !.op = "Stop"]]
              /\ lastCall' = [op |-> "Stop",
                              err |-> Err("panic: close of closed channel"),
                              log |-> procs[t].log]
    /\ UNCHANGED <<constructor, loaders, validators, namedValidators, current,
                   nextId, watchCalls, stopCalls, mergeVars, watcherVars,
                   validateVars, lockVars, unitVars>>

\* The program has ended on an unrecovered panic.
Crashed == \E t \in Threads : procs[t].pc = "crashed"

\* The first loader that has a watcher, 0 when there is none.
FirstWatcher == IF WatcherLoaders = {} THEN 0 ELSE Min(WatcherLoaders)

\* The loaders without a watcher are registered before those with one.
WatchersLast(k) ==
    k.Watcher = "nil" => \A l \in 1 .. Len(loaders) : loaders[l].Watcher = "nil"

\* Start, Stop and reload under change callbacks. reload treats every loader
\* alike, watcher or not, and every callback runs the same cm.reload(): the
\* loaders here come with the watched ones last, and the callbacks that fire
\* are those of the first watcher. SpecDispatch registers the loaders in any
\* order and lets every watcher fire.
Next ==
    \/ \E k \in LoaderKinds : WatchersLast(k) /\ AddLoader(k)
    \/ \E t \in Callers : StartCall(t)
    \/ \E t \in Callers : Preflight(t)
    \/ \E t \in Threads : Load(t)
    \/ \E t \in Threads : ValidateSwap(t)
    \/ \E t \in Callers : RunWatchers(t)
    \/ \E t \in Callers : SetRunning(t)
    \/ \E t \in SerialCallbacks : Trigger(t, FirstWatcher)
    \/ \E t \in SerialCallbacks : Notify(t)
    \/ \E t \in Callers : StopCall(t)
    \/ \E t \in Callers : StopWatchers(t)
    \/ \E t \in Callers : StopDone(t)

Spec == Init /\ [][Next]_vars

-----------------------------------------------------------------------------
\* The manager started over TriggerWatcher loaders, each watcher fired from
\* outside by Trigger(): which loader's callbacks a change callback invokes.

\* A loader without a watcher but with callbacks, and loaders with a
\* TriggerWatcher: with both callbacks, with none.
DispatchLoaderKinds == {Loader(TRUE, TRUE, "nil", TRUE, TRUE),
                        Loader(TRUE, TRUE, "TriggerWatcher", TRUE, TRUE),
                        Loader(TRUE, TRUE, "TriggerWatcher", FALSE, FALSE)}

\* NewConfigManager(func() any { return &TestConfigAsValidator{} })
InitDispatch ==
    /\ constructor = "TestConfigAsValidator"
    /\ validators = <<>>
    /\ namedValidators = NoNamed
    /\ loaders = <<>>
    /\ isRunning = FALSE
    /\ current = NoSnapshot
    /\ procs = [t \in Threads |-> IdleProc]
    /\ nextId = 0
    /\ watchCalls = [l \in LoaderIds |-> 0]
    /\ stopCalls = [l \in LoaderIds |-> 0]
    /\ lastCall = NoCall
    /\ stopClosed = [l \in LoaderIds |-> FALSE]
    /\ pollers = [l \in LoaderIds |-> NoPollers]
    /\ validateOut = NoValidateOut
    /\ mu = NoLock
    /\ configCalls = [r \in ConfigCallers |-> IdleReader]
    /\ acquired = <<>>
    /\ lastMod = ZeroTime
    /\ modTime = ZeroTime
    /\ pollLog = <<>>
    /\ opts = NoOptions
    /\ parseArgs = NoRaw
    /\ parseOut = NoParseOut
    /\ mergeArgs = NoMergeArgs
    /\ mergeOut = NoMergeOut

NextDispatch ==
    \/ \E k \in DispatchLoaderKinds : AddLoader(k)
    \/ \E t \in Callers : StartCall(t)
    \/ \E t \in Callers : Preflight(t)
    \/ \E t \in Threads : Load(t)
    \/ \E t \in Threads : ValidateSwap(t)
    \/ \E t \in Callers : RunWatchers(t)
    \/ \E t \in Callers : SetRunning(t)
    \/ \E t \in SerialCallbacks : \E l \in LoaderIds : Trigger(t, l)
    \/ \E t \in SerialCallbacks : Notify(t)

SpecDispatch == InitDispatch /\ [][NextDispatch]_vars

-----------------------------------------------------------------------------
\* The manager over a ModTimeWatcher loader, through Start, Stop and Start
\* again, with the watcher's polling goroutines.

LifeLoaderKinds == {Loader(TRUE, TRUE, "ModTimeWatcher", TRUE, TRUE)}

\* A manager with one loader. An unrecovered panic ends the program: no
\* goroutine takes a step after it.
NextLife ==
    \/ ~Crashed /\ loaders = <<>> /\ \E k \in LifeLoaderKinds : AddLoader(k)
    \/ ~Crashed /\ \E t \in Callers : StartCall(t)
    \/ ~Crashed /\ \E t \in Callers : Preflight(t)
    \/ ~Crashed /\ \E t \in Threads : Load(t)
    \/ ~Crashed /\ \E t \in Threads : ValidateSwap(t)
    \/ ~Crashed /\ \E t \in Callers : RunWatchers(t)
    \/ ~Crashed /\ \E t \in Callers : SetRunning(t)
    \/ ~Crashed /\ \E t \in SerialCallbacks : \E l \in LoaderIds : Trigger(t, l)
    \/ ~Crashed /\ \E t \in SerialCallbacks : Notify(t)
    \/ ~Crashed /\ \E l \in LoaderIds : \E k \in PollerStates : PollExit(l, k)
    \/ ~Crashed /\ \E t \in Callers : StopCall(t)
    \/ ~Crashed /\ \E t \in Callers : StopWatchers(t)
    \/ ~Crashed /\ \E t \in Callers : StopDone(t)

SpecLife == InitDispatch /\ [][NextLife]_vars

\* A goroutine that can run is run in the end: the polling goroutine whose
\* stop channel is closed, and the goroutine inside a change callback.
CallbackStep(t) == ~Crashed /\ (Load(t) \/ ValidateSwap(t) \/ Notify(t))

FairLife ==
    /\ \A l \in LoaderIds : \A k \in PollerStates :
          WF_vars(~Crashed /\ PollExit(l, k))
    /\ \A t \in CallbackThreads : WF_vars(CallbackStep(t))

SpecLifeFair == SpecLife /\ FairLife

-----------------------------------------------------------------------------
\* The end of reload statement by statement, with cm.mu, under overlapping
\* change callbacks and goroutines that call cm.Config().

\* Variant of Validate: a change callback whose reload passed validation
\* goes to its loader's OnUpdateSuccess at once.
ValidateThenNotify(t) ==
    /\ procs[t].pc = "validate"
    /\ \E o \in MapOrders, f \in SUBSET ValidatorFuncs :
         LET run == validateRun(procs[t].merged, o, f)
             log == Append(procs[t].log, Event("validate", 0))
         IN  /\ validateOut' = <<[config |-> procs[t].merged,
                                  calls  |-> run.calls,
                                  err    |-> run.err]>>
             /\ IF run.err # NoErr THEN Fail(t, run.err, log)
                ELSE /\ procs' = [procs EXCEPT ![t] =
                                     [@ EXCEPT !.pc = IF procs[t].op = "Start"
                                                        THEN "lock"
                                                        ELSE "onUpdate",
                                               !.log = log]]
                     /\ lastCall' = NoCall
                     /\ UNCHANGED current
    /\ UNCHANGED <<constructor, loaders, validators, namedValidators, isRunning,
                   nextId, watchCalls, stopCalls, mergeVars, watcherVars,
                   lockVars, unitVars>>

\* cm.validate(merged): the map is visited in some order and some of the
\* validator functions return an error.
Validate(t) ==
    /\ procs[t].pc = "validate"
    /\ \E o \in MapOrders, f \in SUBSET ValidatorFuncs :
         LET run == validateRun(procs[t].merged, o, f)
             log == Append(procs[t].log, Event("validate", 0))
         IN  /\ validateOut' = <<[config |-> procs[t].merged,
                                  calls  |-> run.calls,
                                  err    |-> run.err]>>
             /\ IF run.err # NoErr THEN Fail(t, run.err, log)
                ELSE /\ procs' = [procs EXCEPT ![t] =
                                     [@ EXCEPT !.pc = "lock", !.log = log]]
                     /\ lastCall' = NoCall
                     /\ UNCHANGED current
    /\ UNCHANGED <<constructor, loaders, validators, namedValidators, isRunning,
                   nextId, watchCalls, stopCalls, mergeVars, watcherVars,
                   lockVars, unitVars>>

\* cm.mu.Lock() is entered: no other goroutine is inside Lock(). Readers that
\* call RLock() from now on wait.
MuLock(t) ==
    /\ procs[t].pc = "lock"
    /\ mu.w = {}
    /\ mu' = [mu EXCEPT !.w = {t}]
    /\ procs' = [procs EXCEPT ![t].pc = "locking"]
    /\ lastCall' = NoCall
    /\ UNCHANGED <<constructor, loaders, validators, namedValidators, isRunning,
                   current, nextId, watchCalls, stopCalls, mergeVars,
                   watcherVars, validateVars, configCalls, acquired,
                   unitVars>>

\* cm.mu.Lock() returns: the readers that held the lock have left.
MuLocked(t) ==
    /\ procs[t].pc = "locking"
    /\ mu.r = {}
    /\ mu' = [mu EXCEPT !.held = @ \cup {t}]
    /\ acquired' = Append(acquired, procs[t].id)
    /\ procs' = [procs EXCEPT ![t].pc = "assign"]
    /\ lastCall' = NoCall
    /\ UNCHANGED <<constructor, loaders, validators, namedValidators, isRunning,
                   current, nextId, watchCalls, stopCalls, mergeVars,
                   watcherVars, validateVars, configCalls,
                   unitVars>>

\* Variant of Assign: an instance constructed before the exposed one is not
\* assigned.
AssignIfNewer(t) ==
    /\ procs[t].pc = "assign"
    /\ current' = IF procs[t].id > current.id
                    THEN [id |-> procs[t].id, cfg |-> procs[t].merged,
                          reads |-> procs[t].reads]
                    ELSE current
    /\ procs' = [procs EXCEPT ![t].pc = "unlock"]
    /\ lastCall' = NoCall
    /\ UNCHANGED <<constructor, loaders, validators, namedValidators, isRunning,
                   nextId, watchCalls, stopCalls, mergeVars, watcherVars,
                   validateVars, lockVars, unitVars>>

\* cm.current = merged
Assign(t) ==
    /\ procs[t].pc = "assign"
    /\ current' = [id |-> procs[t].id, cfg |-> procs[t].merged,
                   reads |-> procs[t].reads]
    /\ procs' = [procs EXCEPT ![t].pc = "unlock"]
    /\ lastCall' = NoCall
    /\ UNCHANGED <<constructor, loaders, validators, namedValidators, isRunning,
                   nextId, watchCalls, stopCalls, mergeVars, watcherVars,
                   validateVars, lockVars, unitVars>>

\* return nil, through the deferred cm.mu.Unlock(): Start goes on to
\* runWatchers, a change callback to its loader's OnUpdateSuccess.
MuUnlock(t) ==
    /\ procs[t].pc = "unlock"
    /\ mu' = [mu EXCEPT !.w = @ \ {t}, !.held = @ \ {t}]
    /\ procs' = [procs EXCEPT ![t] =
          [IdleProc EXCEPT
              !.pc = IF procs[t].op = "Start" THEN "runWatchers"
                     ELSE IF loaders[procs[t].l].OnUpdateSuccess THEN "onUpdate"
                     ELSE "notify",
              !.op = procs[t].op,
              !.l = procs[t].l,
              !.id = IF procs[t].op = "Start" THEN 0 ELSE procs[t].id,
              !.log = IF procs[t].op = "Start"
                        THEN Append(procs[t].log, Event("swap", 0))
                        ELSE <<>>]]
    /\ lastCall' = NoCall
    /\ UNCHANGED <<constructor, loaders, validators, namedValidators, isRunning,
                   current, nextId, watchCalls, stopCalls, mergeVars,
                   watcherVars, validateVars, configCalls, acquired,
                   unitVars>>

\* Variant of ConfigRLock: RLock() does not wait for a writer.
ConfigRLockNoWait(g) ==
    /\ configCalls[g].pc = "idle"
    /\ g \in CallbackThreads => procs[g].pc = "onUpdate"
    /\ mu' = [mu EXCEPT !.r = @ \cup {g}]
    /\ configCalls' = [configCalls EXCEPT ![g].pc = "rlocked"]
    /\ lastCall' = NoCall
    /\ UNCHANGED <<constructor, loaders, validators, namedValidators, isRunning,
                   current, procs, nextId, watchCalls, stopCalls, mergeVars, watcherVars,
                   validateVars, acquired,
                   unitVars>>

\* cm.Config(): cm.mu.RLock() returns when no goroutine is inside Lock().
ConfigRLock(g) ==
    /\ configCalls[g].pc = "idle"
    /\ g \in CallbackThreads => procs[g].pc = "onUpdate"
    /\ mu.w = {}
    /\ mu' = [mu EXCEPT !.r = @ \cup {g}]
    /\ configCalls' = [configCalls EXCEPT ![g].pc = "rlocked"]
    /\ lastCall' = NoCall
    /\ UNCHANGED <<constructor, loaders, validators, namedValidators, isRunning,
                   current, procs, nextId, watchCalls, stopCalls, mergeVars, watcherVars,
                   validateVars, acquired,
                   unitVars>>

\* cm.Config(): return cm.current, through the deferred cm.mu.RUnlock(). A
\* reader keeps the instance it got.
ConfigReturn(g) ==
    /\ configCalls[g].pc = "rlocked"
    /\ configCalls' = [configCalls EXCEPT ![g] =
          [pc |-> "idle", got |-> IF g \in Readers THEN current ELSE @.got]]
    /\ mu' = [mu EXCEPT !.r = @ \ {g}]
    /\ procs' = IF g \in CallbackThreads
                  THEN [procs EXCEPT ![g].pc = "notify"]
                  ELSE procs
    /\ lastCall' = [op |-> "Config", err |-> NoErr,
                    log |-> <<Event("Config", current.id)>>]
    /\ UNCHANGED <<constructor, loaders, validators, namedValidators, isRunning,
                   current, nextId, watchCalls, stopCalls, mergeVars,
                   watcherVars, validateVars, acquired,
                   unitVars>>

\* A loader with a TriggerWatcher and both callbacks.
SwapLoaderKinds == {Loader(TRUE, TRUE, "TriggerWatcher", TRUE, TRUE)}

\* The configuration types of the managers built here.
SwapConstructors == {"TestConfig", "TestConfigAsValidator"}

\* NewConfigManager(constructor, WithValidator(f), WithNamedValidator("n", g))
InitSwap ==
    /\ constructor \in SwapConstructors
    /\ validators = <<"fn">>
    /\ namedValidators = Named("fn")
    /\ loaders = <<>>
    /\ isRunning = FALSE
    /\ current = NoSnapshot
    /\ procs = [t \in Threads |-> IdleProc]
    /\ nextId = 0
    /\ watchCalls = [l \in LoaderIds |-> 0]
    /\ stopCalls = [l \in LoaderIds |-> 0]
    /\ lastCall = NoCall
    /\ stopClosed = [l \in LoaderIds |-> FALSE]
    /\ pollers = [l \in LoaderIds |-> NoPollers]
    /\ validateOut = NoValidateOut
    /\ mu = NoLock
    /\ configCalls = [r \in ConfigCallers |-> IdleReader]
    /\ acquired = <<>>
    /\ lastMod = ZeroTime
    /\ modTime = ZeroTime
    /\ pollLog = <<>>
    /\ opts = NoOptions
    /\ parseArgs = NoRaw
    /\ parseOut = NoParseOut
    /\ mergeArgs = NoMergeArgs
    /\ mergeOut = NoMergeOut

\* A manager with one loader, started until Start succeeds.
NextSwap ==
    \/ loaders = <<>> /\ \E k \in SwapLoaderKinds : AddLoader(k)
    \/ ~isRunning /\ \E t \in Callers : StartCall(t)
    \/ \E t \in Callers : Preflight(t)
    \/ \E t \in Threads : Load(t)
    \/ \E t \in Threads : Validate(t)
    \/ \E t \in Threads : MuLock(t)
    \/ \E t \in Threads : MuLocked(t)
    \/ \E t \in Threads : Assign(t)
    \/ \E t \in Threads : MuUnlock(t)
    \/ \E t \in Callers : RunWatchers(t)
    \/ \E t \in Callers : SetRunning(t)
    \/ \E t \in CallbackThreads : \E l \in LoaderIds : Trigger(t, l)
    \/ \E g \in ConfigCallers : ConfigRLock(g)
    \/ \E g \in ConfigCallers : ConfigReturn(g)
    \/ \E t \in CallbackThreads : Notify(t)

SpecSwap == InitSwap /\ [][NextSwap]_vars

-----------------------------------------------------------------------------
\* Two goroutines call cm.Start() on a manager that was never started.

\* Loaders with the package's two notifiers.
RaceLoaderKinds == {Loader(TRUE, TRUE, "TriggerWatcher", TRUE, TRUE),
                    Loader(TRUE, TRUE, "ModTimeWatcher", TRUE, TRUE)}

NextRace ==
    \/ \E k \in RaceLoaderKinds : AddLoader(k)
    \/ \E t \in ConcurrentCallers : StartCall(t)
    \/ \E t \in ConcurrentCallers : Preflight(t)
    \/ \E t \in ConcurrentCallers : Load(t)
    \/ \E t \in ConcurrentCallers : ValidateSwap(t)
    \/ \E t \in ConcurrentCallers : RunWatchers(t)
    \/ \E t \in ConcurrentCallers : SetRunning(t)

SpecRace == InitDispatch /\ [][NextRace]_vars

-----------------------------------------------------------------------------
\* Start, Stop and AddLoader in any order: AddLoader on a manager that has
\* been started, and two goroutines that call cm.Stop() at the same time.

\* cm.AddLoader(l), called after a Start has loaded the configuration.
AddLoaderLate(k) ==
    /\ procs["main"].pc = "idle"
    /\ nextId > 0
    /\ Len(loaders) < MaxLoaders
    /\ loaders' = Append(loaders, k)
    /\ lastCall' = NoCall
    /\ UNCHANGED <<constructor, validators, namedValidators, isRunning, current,
                   procs, nextId, watchCalls, stopCalls, mergeVars, watcherVars,
                   validateVars, lockVars, unitVars>>

NextLate ==
    \/ ~Crashed /\ \E k \in RaceLoaderKinds : AddLoader(k)
    \/ ~Crashed /\ \E k \in RaceLoaderKinds : AddLoaderLate(k)
    \/ ~Crashed /\ \E t \in Callers : StartCall(t)
    \/ ~Crashed /\ \E t \in Callers : Preflight(t)
    \/ ~Crashed /\ \E t \in Callers : Load(t)
    \/ ~Crashed /\ \E t \in Callers : ValidateSwap(t)
    \/ ~Crashed /\ \E t \in Callers : RunWatchers(t)
    \/ ~Crashed /\ \E t \in Callers : SetRunning(t)
    \/ ~Crashed /\ \E t \in ConcurrentCallers : StopCall(t)
    \/ ~Crashed /\ \E t \in ConcurrentCallers : StopWatchers(t)
    \/ ~Crashed /\ \E t \in ConcurrentCallers : StopDone(t)

SpecLate == InitDispatch /\ [][NextLate]_vars

-----------------------------------------------------------------------------
\* A ModTimeWatcher on its own, as the tests of watchers_test.go drive it:
\* NewModTimeWatcher(mock), Watch(callback), polls, Stop(). The mock answers
\* each ModTime() call as the test scripted it.

\* Latest modification time a ModTimer reports.
MaxTime == 3

\* Polls of one watcher that are followed.
MaxPolls == 3

\* What ModTime() returns: (modTime, nil), or (time.Time{}, err).
ModTimeOk(m) == [t |-> m, err |-> FALSE]

ModTimeFail == [t |-> ZeroTime, err |-> TRUE]

\* The time.Time values are ZeroTime .. MaxTime, ordered as Before/After order
\* them.
ModTimeResults ==
    {ModTimeOk(m) : m \in ZeroTime .. MaxTime} \cup {ModTimeFail}

\* Variant of PollOutcome: a modification time that is not earlier than the
\* baseline invokes the callback.
PollOutcomeNotEarlier(last, r) ==
    IF r.err THEN [lastMod |-> last, called |-> FALSE]
    ELSE IF last = ZeroTime THEN [lastMod |-> r.t, called |-> FALSE]
    ELSE IF r.t >= last THEN [lastMod |-> r.t, called |-> TRUE]
    ELSE [lastMod |-> last, called |-> FALSE]

\* Variant of PollOutcome: a failed ModTime() forgets the baseline.
PollOutcomeErrorResets(last, r) ==
    IF r.err THEN [lastMod |-> ZeroTime, called |-> FALSE]
    ELSE IF last = ZeroTime THEN [lastMod |-> r.t, called |-> FALSE]
    ELSE IF r.t > last THEN [lastMod |-> r.t, called |-> TRUE]
    ELSE [lastMod |-> last, called |-> FALSE]

\* One poll, `case <-time.After(fw.interval)`, with fw.lastMod = last and
\* ModTime() returning r: the new fw.lastMod and whether callback() is called.
PollOutcome(last, r) ==
    IF r.err THEN [lastMod |-> last, called |-> FALSE]
    ELSE IF last = ZeroTime THEN [lastMod |-> r.t, called |-> FALSE]
    ELSE IF r.t > last THEN [lastMod |-> r.t, called |-> TRUE]
    ELSE [lastMod |-> last, called |-> FALSE]

\* watcher.Watch(callback): the goroutine starts and enters its select.
Watch ==
    /\ watchCalls[1] = 0
    /\ pollers' = [pollers EXCEPT ![1] =
                      IF stopClosed[1] THEN [@ EXCEPT !.late = @ + 1]
                      ELSE [@ EXCEPT !.armed = @ + 1]]
    /\ watchCalls' = [watchCalls EXCEPT ![1] = @ + 1]
    /\ UNCHANGED <<constructor, loaders, validators, namedValidators, isRunning,
                   current, procs, nextId, stopCalls, lastCall, stopClosed,
                   mergeVars, validateVars, lockVars, pollVars, optionVars,
                   parseVars>>

\* The timer of the polling goroutine fires and ModTime() returns r: the
\* loop body, with the test's callback, and back to the select on a new timer.
PollTick(r) ==
    /\ pollers[1].armed > 0
    /\ Len(pollLog) < MaxPolls
    /\ lastMod' = PollOutcome(lastMod, r).lastMod
    /\ pollLog' = Append(pollLog,
                         [res    |-> r,
                          lastMod |-> PollOutcome(lastMod, r).lastMod,
                          called |-> PollOutcome(lastMod, r).called])
    /\ pollers' = IF stopClosed[1]
                    THEN [pollers EXCEPT ![1].armed = @ - 1, ![1].late = @ + 1]
                    ELSE pollers
    /\ UNCHANGED <<managerVars, stopClosed, mergeVars, validateVars, lockVars,
                   modTime, optionVars, parseVars>>

\* watcher.Stop(): close(fw.stop); return nil
WatcherStop ==
    /\ ~stopClosed[1]
    /\ stopClosed' = [stopClosed EXCEPT ![1] = TRUE]
    /\ stopCalls' = [stopCalls EXCEPT ![1] = @ + 1]
    /\ UNCHANGED <<constructor, loaders, validators, namedValidators, isRunning,
                   current, procs, nextId, watchCalls, lastCall, pollers,
                   mergeVars, validateVars, lockVars, unitVars>>

\* The polling goroutine, in state k, takes `case <-fw.stop` and returns.
PollReturn(k) ==
    /\ stopClosed[1]
    /\ pollers[1][k] > 0
    /\ pollers' = [pollers EXCEPT ![1][k] = @ - 1]
    /\ UNCHANGED <<managerVars, stopClosed, mergeVars, validateVars, lockVars,
                   unitVars>>

NextWatch ==
    \/ Watch
    \/ \E r \in ModTimeResults : PollTick(r)
    \/ WatcherStop
    \/ \E k \in PollerStates : PollReturn(k)

SpecWatch == InitDispatch /\ [][NextWatch]_vars

-----------------------------------------------------------------------------
\* cm.validate called directly, as TestConfigManager_validate does, several
\* times on one manager.

\* Calls of cm.validate made on one manager.
MaxValidateCalls == 2

\* WithValidators(f, g) and WithNamedValidators of two names.
ValidateNames == {"a", "b"}

\* The accumulators handed to cm.validate: valid, and one the type rejects.
ValidateConfigs == {PtrTo(constructor, WithInt(1)),
                    PtrTo(constructor, WithInt(InvalidInt))}

InitValidate ==
    /\ constructor \in {"TestConfig", "TestConfigAsValidator"}
    /\ validators = <<"fn", "fn">>
    /\ namedValidators = [n \in ValidateNames |-> "fn"]
    /\ loaders = <<>>
    /\ isRunning = FALSE
    /\ current = NoSnapshot
    /\ procs = [t \in Threads |-> IdleProc]
    /\ nextId = 0
    /\ watchCalls = [l \in LoaderIds |-> 0]
    /\ stopCalls = [l \in LoaderIds |-> 0]
    /\ lastCall = NoCall
    /\ stopClosed = [l \in LoaderIds |-> FALSE]
    /\ pollers = [l \in LoaderIds |-> NoPollers]
    /\ validateOut = NoValidateOut
    /\ mu = NoLock
    /\ configCalls = [r \in ConfigCallers |-> IdleReader]
    /\ acquired = <<>>
    /\ lastMod = ZeroTime
    /\ modTime = ZeroTime
    /\ pollLog = <<>>
    /\ opts = NoOptions
    /\ parseArgs = NoRaw
    /\ parseOut = NoParseOut
    /\ mergeArgs = NoMergeArgs
    /\ mergeOut = NoMergeOut

\* err := cm.validate(config)
ValidateCall ==
    /\ Len(validateOut) < MaxValidateCalls
    /\ \E config \in ValidateConfigs, o \in MapOrders,
          f \in SUBSET ValidatorFuncs :
         validateOut' = Append(validateOut,
                               [config |-> config,
                                calls  |-> validateRun(config, o, f).calls,
                                err    |-> validateRun(config, o, f).err])
    /\ UNCHANGED <<managerVars, watcherVars, mergeVars, lockVars, unitVars>>

NextValidate == ValidateCall

SpecValidate == InitValidate /\ [][NextValidate]_vars

-----------------------------------------------------------------------------
\* The manager over one WithDynamicJSONFile loader: the file is the loader's
\* Source and its watcher's ModTimer, and it is written while the manager
\* runs.

\* The modification time of the file when the manager is built.
InitialModTime == 1

InitPoll ==
    /\ constructor = "TestConfigAsValidator"
    /\ validators = <<>>
    /\ namedValidators = NoNamed
    /\ loaders = <<>>
    /\ isRunning = FALSE
    /\ current = NoSnapshot
    /\ procs = [t \in Threads |-> IdleProc]
    /\ nextId = 0
    /\ watchCalls = [l \in LoaderIds |-> 0]
    /\ stopCalls = [l \in LoaderIds |-> 0]
    /\ lastCall = NoCall
    /\ stopClosed = [l \in LoaderIds |-> FALSE]
    /\ pollers = [l \in LoaderIds |-> NoPollers]
    /\ validateOut = NoValidateOut
    /\ mu = NoLock
    /\ configCalls = [r \in ConfigCallers |-> IdleReader]
    /\ acquired = <<>>
    /\ mergeArgs = NoMergeArgs
    /\ mergeOut = NoMergeOut
    /\ lastMod = ZeroTime
    /\ modTime = InitialModTime
    /\ pollLog = <<>>
    /\ opts = NoOptions
    /\ parseArgs = NoRaw
    /\ parseOut = NoParseOut

\* The file is written after the initial reload has read it and published
\* its snapshot: os.Stat reports a later modification time from now on.
Modify ==
    /\ current # NoSnapshot
    /\ modTime < MaxTime
    /\ nextId < MaxReloads
    /\ modTime' = modTime + 1
    /\ lastCall' = NoCall
    /\ UNCHANGED <<constructor, loaders, validators, namedValidators, isRunning,
                   current, procs, nextId, watchCalls, stopCalls, mergeVars,
                   watcherVars, validateVars, lockVars, lastMod, pollLog,
                   optionVars, parseVars>>

\* The timer of loader l's polling goroutine fires: fs.ModTime() succeeds,
\* the loop body compares, and on a change the goroutine runs the callback
\* runWatchers handed to Watch, which begins cm.reload(). pollLog keeps the
\* latest poll.
Poll(t, l) ==
    /\ l \in ModTimeLoaders
    /\ pollers[l].armed > 0
    /\ procs[t].pc = "idle"
    /\ LET out == PollOutcome(lastMod, ModTimeOk(modTime))
       IN  /\ lastMod' = out.lastMod
           /\ pollLog' = <<[res |-> ModTimeOk(modTime), lastMod |-> out.lastMod,
                            called |-> out.called]>>
           /\ IF out.called
                THEN /\ nextId < MaxReloads
                     /\ procs' = [procs EXCEPT ![t] =
                           BeginReload([IdleProc EXCEPT !.op = "callback",
                                                        !.l = l])]
                     /\ nextId' = nextId + 1
                     /\ pollers' = [pollers EXCEPT ![l].armed = @ - 1]
                ELSE /\ UNCHANGED <<procs, nextId>>
                     /\ pollers' = IF stopClosed[l]
                                     THEN [pollers EXCEPT ![l].armed = @ - 1,
                                                          ![l].late = @ + 1]
                                     ELSE pollers
    /\ lastCall' = NoCall
    /\ UNCHANGED <<constructor, loaders, validators, namedValidators, isRunning,
                   current, watchCalls, stopCalls, stopClosed, mergeVars,
                   validateVars, lockVars, modTime, optionVars, parseVars>>

NextPoll ==
    \/ loaders = <<>> /\ \E k \in LifeLoaderKinds : AddLoader(k)
    \/ \E t \in Callers : StartCall(t)
    \/ \E t \in Callers : Preflight(t)
    \/ \E t \in Threads : Load(t)
    \/ \E t \in Threads : ValidateSwap(t)
    \/ \E t \in Callers : RunWatchers(t)
    \/ \E t \in Callers : SetRunning(t)
    \/ Modify
    \/ \E t \in SerialCallbacks : \E l \in LoaderIds : Poll(t, l)
    \/ \E t \in SerialCallbacks : Notify(t)

SpecPoll == InitPoll /\ [][NextPoll]_vars

\* Every goroutine that can run is run in the end: the timer of the polling
\* goroutine fires, and the caller of Start and the goroutine inside a change
\* callback go on.
StartStep(t) == Preflight(t) \/ Load(t) \/ ValidateSwap(t) \/ RunWatchers(t)
                \/ SetRunning(t)

FairPoll ==
    /\ \A t \in SerialCallbacks : \A l \in LoaderIds : WF_vars(Poll(t, l))
    /\ \A t \in SerialCallbacks :
          WF_vars(Load(t) \/ ValidateSwap(t) \/ Notify(t))
    /\ \A t \in Callers : WF_vars(StartStep(t))

SpecPollFair == SpecPoll /\ FairPoll

-----------------------------------------------------------------------------
\* NewConfigManager(constructor, opts...) with validator options, and
\* cm.validate on the manager it built.

\* Most options handed to NewConfigManager.
MaxOptions == 3

\* The function values the options pass: each option passes its own.
FuncNames == <<"f1", "f2", "f3", "f4", "f5">>

\* WithValidator(v) and WithNamedValidator(name, v)
WithValidator(v) == [opt |-> "WithValidator", name |-> "", v |-> v]

WithNamedValidator(name, v) == [opt |-> "WithNamedValidator", name |-> name, v |-> v]

\* The options one position of the list can hold, passing function v.
OptionsWith(v) ==
    {WithValidator(v)} \cup {WithNamedValidator(n, v) : n \in ValidateNames}

\* The option lists: the k-th option passes the k-th function.
OptionLists(n) ==
    UNION {{os \in [1 .. k -> UNION {OptionsWith(FuncNames[i]) : i \in 1 .. k}] :
               \A i \in 1 .. k : os[i] \in OptionsWith(FuncNames[i])} :
           k \in 0 .. n}

\* opt(cm): what one option does to the manager's validators.
ApplyOption(cm, o) ==
    IF o.opt = "WithValidator"
      THEN [cm EXCEPT !.validators = Append(@, o.v)]
      ELSE [cm EXCEPT !.namedValidators =
               [x \in DOMAIN @ \cup {o.name} |->
                   IF x = o.name THEN o.v ELSE @[x]]]

\* for _, opt := range opts: the manager after the options from the i-th on.
RECURSIVE ApplyOptions(_, _, _)
ApplyOptions(cm, os, i) ==
    IF i > Len(os) THEN cm
    ELSE ApplyOptions(ApplyOption(cm, os[i]), os, i + 1)

\* The validators of NewConfigManager(constructor, os...).
NewConfigManager(os) ==
    ApplyOptions([validators |-> <<>>, namedValidators |-> NoNamed], os, 1)

InitOptions ==
    /\ opts \in OptionLists(MaxOptions)
    /\ constructor \in {"TestConfig", "TestConfigAsValidator"}
    /\ validators = NewConfigManager(opts).validators
    /\ namedValidators = NewConfigManager(opts).namedValidators
    /\ loaders = <<>>
    /\ isRunning = FALSE
    /\ current = NoSnapshot
    /\ procs = [t \in Threads |-> IdleProc]
    /\ nextId = 0
    /\ watchCalls = [l \in LoaderIds |-> 0]
    /\ stopCalls = [l \in LoaderIds |-> 0]
    /\ lastCall = NoCall
    /\ stopClosed = [l \in LoaderIds |-> FALSE]
    /\ pollers = [l \in LoaderIds |-> NoPollers]
    /\ validateOut = NoValidateOut
    /\ mu = NoLock
    /\ configCalls = [r \in ConfigCallers |-> IdleReader]
    /\ acquired = <<>>
    /\ mergeArgs = NoMergeArgs
    /\ mergeOut = NoMergeOut
    /\ lastMod = ZeroTime
    /\ modTime = ZeroTime
    /\ pollLog = <<>>
    /\ parseArgs = NoRaw
    /\ parseOut = NoParseOut

NextOptions == ValidateCall

SpecOptions == InitOptions /\ [][NextOptions]_vars

-----------------------------------------------------------------------------
\* EnvFormatter.parseRawIntoMap called directly, as
\* TestEnvFormatter_parseRawIntoMap does. A []byte or string is the sequence
\* of its bytes.

\* Longest raw input.
MaxRaw == 7

\* The inputs are made of four bytes: a letter, the separators, a space.
RawInputs(n) == UNION {[1 .. k -> {"a", "=", "\n", " "}] : k \in 0 .. n}

pairLen == 2

\* bytes.IndexByte(s, c), counted from 1: 0 when c is not in s.
IndexByte(s, c) ==
    IF \A i \in 1 .. Len(s) : s[i] # c THEN 0
    ELSE Min({i \in 1 .. Len(s) : s[i] = c})

\* bytes.SplitN(s, sep, n) for a separator of one byte: at most n pieces, the
\* last one the unsplit rest; n < 0 is bytes.Split(s, sep).
RECURSIVE SplitN(_, _, _)
SplitN(s, sep, n) ==
    IF n = 1 \/ IndexByte(s, sep) = 0 THEN <<s>>
    ELSE <<SubSeq(s, 1, IndexByte(s, sep) - 1)>>
         \o SplitN(SubSeq(s, IndexByte(s, sep) + 1, Len(s)), sep, n - 1)

\* make(map[string]string), and res[k] = v
EmptyMap == [k \in {} |-> <<>>]

MapPut(res, k, v) == [x \in DOMAIN res \cup {k} |-> IF x = k THEN v ELSE res[x]]

\* Variant of parseLines: a key that is in the map already keeps its value.
RECURSIVE parseLinesFirstWins(_, _)
parseLinesFirstWins(res, lines) ==
    IF lines = <<>> THEN res
    ELSE LET line == Head(lines)
             pair == SplitN(line, "=", pairLen)
         IN  parseLinesFirstWins(
                 IF Len(line) = 0 \/ Len(pair) # pairLen
                    \/ pair[1] \in DOMAIN res THEN res
                 ELSE MapPut(res, pair[1], pair[2]),
                 Tail(lines))

\* for _, line := range lines: the map after the lines that are left.
RECURSIVE parseLines(_, _)
parseLines(res, lines) ==
    IF lines = <<>> THEN res
    ELSE LET line == Head(lines)
             pair == SplitN(line, "=", pairLen)
         IN  parseLines(
                 IF Len(line) = 0 \/ Len(pair) # pairLen THEN res
                 ELSE MapPut(res, pair[1], pair[2]),
                 Tail(lines))

\* Variant of parseRawIntoMap: the first line that gives a key wins.
parseRawIntoMapFirstWins(raw) ==
    [nil |-> FALSE, m |-> parseLinesFirstWins(EmptyMap, SplitN(raw, "\n", -1))]

\* ef.parseRawIntoMap(raw): a map that is never nil.
parseRawIntoMap(raw) ==
    [nil |-> FALSE, m |-> parseLines(EmptyMap, SplitN(raw, "\n", -1))]

InitParse ==
    /\ parseArgs \in RawInputs(MaxRaw)
    /\ parseOut = NoParseOut
    /\ constructor = "TestConfig"
    /\ validators = <<>>
    /\ namedValidators = NoNamed
    /\ loaders = <<>>
    /\ isRunning = FALSE
    /\ current = NoSnapshot
    /\ procs = [t \in Threads |-> IdleProc]
    /\ nextId = 0
    /\ watchCalls = [l \in LoaderIds |-> 0]
    /\ stopCalls = [l \in LoaderIds |-> 0]
    /\ lastCall = NoCall
    /\ stopClosed = [l \in LoaderIds |-> FALSE]
    /\ pollers = [l \in LoaderIds |-> NoPollers]
    /\ validateOut = NoValidateOut
    /\ mu = NoLock
    /\ configCalls = [r \in ConfigCallers |-> IdleReader]
    /\ acquired = <<>>
    /\ mergeArgs = NoMergeArgs
    /\ mergeOut = NoMergeOut
    /\ lastMod = ZeroTime
    /\ modTime = ZeroTime
    /\ pollLog = <<>>
    /\ opts = NoOptions

\* got := ef.parseRawIntoMap(tt.args.raw)
ParseCall ==
    /\ ~parseOut.done
    /\ parseOut' = [done |-> TRUE, res |-> parseRawIntoMap(parseArgs)]
    /\ UNCHANGED <<parseArgs, managerVars, watcherVars, mergeVars, validateVars,
                   lockVars, pollVars, optionVars>>

NextParse == ParseCall

SpecParse == InitParse /\ [][NextParse]_vars

-----------------------------------------------------------------------------
\* cm.merge called directly, as TestConfigManager_merge does: on a pair of
\* *TestConfig records, or on arguments of any shape.

MergeCalls(k) ==
    {<<PtrTo("TestConfig", d), PtrTo("TestConfig", c)>> :
        d \in MergeConfigs(k), c \in MergeConfigs(k)}
    \cup (ShapeValues \X ShapeValues)

InitMerge ==
    /\ mergeArgs \in MergeCalls(MaxSetFields)
    /\ mergeOut = NoMergeOut
    /\ constructor = "TestConfig"
    /\ validators = <<>>
    /\ namedValidators = NoNamed
    /\ loaders = <<>>
    /\ isRunning = FALSE
    /\ current = NoSnapshot
    /\ procs = [t \in Threads |-> IdleProc]
    /\ nextId = 0
    /\ watchCalls = [l \in LoaderIds |-> 0]
    /\ stopCalls = [l \in LoaderIds |-> 0]
    /\ lastCall = NoCall
    /\ stopClosed = [l \in LoaderIds |-> FALSE]
    /\ pollers = [l \in LoaderIds |-> NoPollers]
    /\ validateOut = NoValidateOut
    /\ mu = NoLock
    /\ configCalls = [r \in ConfigCallers |-> IdleReader]
    /\ acquired = <<>>
    /\ lastMod = ZeroTime
    /\ modTime = ZeroTime
    /\ pollLog = <<>>
    /\ opts = NoOptions
    /\ parseArgs = NoRaw
    /\ parseOut = NoParseOut

\* gotErr := cm.merge(dst, src)
MergeCall ==
    /\ ~mergeOut.done
    /\ mergeOut' = [done |-> TRUE,
                    err  |-> merge(mergeArgs[1], mergeArgs[2]).err,
                    dst  |-> merge(mergeArgs[1], mergeArgs[2]).dst]
    /\ UNCHANGED <<mergeArgs, managerVars, watcherVars, validateVars, lockVars, unitVars>>

NextMerge == MergeCall

SpecMerge == InitMerge /\ [][NextMerge]_vars

-----------------------------------------------------------------------------
\* Properties of cm.merge called directly (SpecMerge).

\* The call merged two *TestConfig records generically.
GenericCall ==
    /\ mergeOut.done
    /\ mergeArgs[1] = PtrTo("TestConfig", mergeArgs[1].val)
    /\ mergeArgs[2] = PtrTo("TestConfig", mergeArgs[2].val)

ArgDst == mergeArgs[1].val

ArgSrc == mergeArgs[2].val

Merged == mergeOut.dst.val

\* The fields of a TestConfig, nested structs opened up.
Leaves == {"Int", "IntPtr", "Inner.Int", "Inner.String", "InnerPtr", "Map", "Slice"}

ScalarLeaves == {"Int", "Inner.Int", "Inner.String"}

Leaf(c, f) ==
    CASE f = "Inner.Int"    -> c.Inner.Int
      [] f = "Inner.String" -> c.Inner.String
      [] OTHER              -> c[f]

LeafIsZero(c, f) == Leaf(c, f) = Leaf(ZeroConfig, f)

\* C4 as stated: after a generic merge every field (nested structs opened up)
\* equals incoming's value where that is non-zero and is left as it was where
\* incoming's value is zero.
C4_EveryFieldTakesNonZero ==
    GenericCall =>
        \A f \in Leaves :
            /\ ~LeafIsZero(ArgSrc, f) => Leaf(Merged, f) = Leaf(ArgSrc, f)
            /\ LeafIsZero(ArgSrc, f) => Leaf(Merged, f) = Leaf(ArgDst, f)

\* C4 amended: the merge succeeds; every scalar field (number or string,
\* nested structs opened up) takes incoming's value where that is non-zero;
\* every field of any kind is left exactly as it was where incoming's value
\* is zero (nil).
C4_ScalarsTakeNonZero ==
    GenericCall =>
        /\ mergeOut.err = NoErr
        /\ \A f \in ScalarLeaves :
              ~LeafIsZero(ArgSrc, f) => Leaf(Merged, f) = Leaf(ArgSrc, f)
        /\ \A f \in Leaves :
              LeafIsZero(ArgSrc, f) => Leaf(Merged, f) = Leaf(ArgDst, f)

\* C4 witness: incoming sets one scalar and leaves zero another field that
\* the accumulator holds.
C4_Witness ==
    /\ GenericCall
    /\ ArgSrc.Int # 0
    /\ Merged.Int = ArgSrc.Int
    /\ \E f \in Leaves \ {"Int"} :
          ~LeafIsZero(ArgDst, f) /\ Leaf(Merged, f) = Leaf(ArgDst, f)

\* C5 as stated: merging a zero-valued source leaves the destination as it
\* was, and merging any source into a zero-valued destination makes the
\* destination equal to the source.
C5_MergeLaws ==
    GenericCall =>
        /\ ArgSrc = ZeroConfig => Merged = ArgDst
        /\ ArgDst = ZeroConfig => Merged = ArgSrc

\* The source with an empty, non-nil sequence replaced by the nil sequence.
EmptySliceAsNil(c) ==
    [c EXCEPT !.Slice = IF Len(c.Slice.elems) = 0 THEN NilSlice ELSE c.Slice]

\* C5 amended: merging a zero-valued source leaves the destination as it was;
\* merging any source into a zero-valued destination makes the destination
\* equal to the source, except that a sequence that is empty but not nil in
\* the source stays nil in the destination.
C5_MergeLawsUpToEmptySlice ==
    GenericCall =>
        /\ ArgSrc = ZeroConfig => Merged = ArgDst
        /\ ArgDst = ZeroConfig => Merged = EmptySliceAsNil(ArgSrc)

\* C5 witness: a non-zero source with a non-nil pointer was merged into a
\* zero-valued destination.
C5_Witness ==
    /\ GenericCall
    /\ ArgDst = ZeroConfig
    /\ ~IsNilPtr(ArgSrc.IntPtr)
    /\ Merged = ArgSrc

\* C6: a non-empty incoming map is overlaid key by key (its keys added or
\* overwritten, the accumulator's other keys kept); a non-empty incoming
\* sequence replaces the accumulator's; a nil or empty incoming map or
\* sequence leaves the accumulator's existing collection as it was.
C6_Collections ==
    GenericCall =>
        /\ ArgSrc.Map.keys # {} =>
              /\ ~Merged.Map.nil
              /\ Merged.Map.keys = ArgDst.Map.keys \cup ArgSrc.Map.keys
              /\ \A k \in ArgSrc.Map.keys : Merged.Map.val[k] = ArgSrc.Map.val[k]
              /\ \A k \in ArgDst.Map.keys \ ArgSrc.Map.keys :
                    Merged.Map.val[k] = ArgDst.Map.val[k]
        /\ Len(ArgSrc.Slice.elems) > 0 => Merged.Slice = ArgSrc.Slice
        /\ ArgSrc.Map.keys = {} =>
              /\ Merged.Map.keys = ArgDst.Map.keys
              /\ Merged.Map.val = ArgDst.Map.val
              /\ ~ArgDst.Map.nil => Merged.Map = ArgDst.Map
        /\ Len(ArgSrc.Slice.elems) = 0 => Merged.Slice = ArgDst.Slice

\* C6 witness: the maps of both sides hold a key the other lacks.
C6_Witness ==
    /\ GenericCall
    /\ ArgDst.Map.keys = {"a"}
    /\ ArgSrc.Map.keys = {"b"}
    /\ Merged.Map.keys = {"a", "b"}

\* Both arguments are pointers to structured records of one type.
SameRecordPointers ==
    /\ mergeArgs[1].kind = "ptr" /\ ElemKind(mergeArgs[1].type) = "struct"
    /\ mergeArgs[2].kind = "ptr" /\ ElemKind(mergeArgs[2].type) = "struct"
    /\ mergeArgs[1].type = mergeArgs[2].type

\* C8 as stated: merge returns an error whenever the arguments are not both
\* pointers to structured records of the same type.
C8_ErrorUnlessSameRecordPointers ==
    mergeOut.done => (~SameRecordPointers => mergeOut.err # NoErr)

\* The accumulator is a pointer to a record, and incoming is a record of the
\* same type, behind a pointer or (for the generic merge) held directly.
AcceptedArgs ==
    /\ mergeArgs[1].kind = "ptr" /\ ElemKind(mergeArgs[1].type) = "struct"
    /\ mergeArgs[2].type = mergeArgs[1].type
    /\ \/ mergeArgs[2].kind = "ptr"
       \/ mergeArgs[2].kind = "value" /\ ~ImplementsMerger(mergeArgs[1])

\* C8 amended: merge returns an error when the accumulator is nil, not a
\* pointer or a pointer to a scalar, when incoming is nil, or when the two
\* record types differ; the generic merge takes an incoming record held
\* directly like one behind a pointer, and succeeds exactly when the
\* accumulator points to a record and incoming is of that record type.
C8_ErrorUnlessAccepted ==
    mergeOut.done =>
        /\ ~AcceptedArgs => mergeOut.err # NoErr
        /\ AcceptedArgs /\ ~ImplementsMerger(mergeArgs[1]) => mergeOut.err = NoErr

\* C8 witness: an incoming TestConfig held directly was merged into a
\* *TestConfig without error.
C8_Witness ==
    /\ mergeOut.done
    /\ mergeArgs[1] = PtrTo("TestConfig", WithInt(1))
    /\ mergeArgs[2] = ValueOf("TestConfig", WithInt(2))
    /\ mergeOut.err = NoErr
    /\ mergeOut.dst.val.Int = 2

-----------------------------------------------------------------------------
\* Properties of the manager (Spec).

\* Goroutine t's reload fails in this step: Start returns the error, or the
\* callback is left holding it.
ReloadFails(t) ==
    /\ procs[t].pc \in {"load", "validate"}
    /\ \/ procs'[t].pc = "notify" /\ procs'[t].err # NoErr
       \/ /\ procs[t].op = "Start"
          /\ procs'[t].pc = "idle"
          /\ lastCall'.op = "Start"
          /\ lastCall'.err # NoErr

\* C1 as stated: after a reload fails, Config() returns the instance it
\* returned before that reload began.
C1_SnapshotAsWhenReloadBegan ==
    [][\A t \in Threads : ReloadFails(t) => current'.id = procs[t].seen]_vars

\* C1 amended: a reload that fails (at a read, a decode, a merge or the
\* validation) never changes the snapshot itself: Config() returns after the
\* failure what it returned just before it, and never the failed reload's
\* accumulator.
C1_FailedReloadKeepsSnapshot ==
    [][\A t \in Threads :
          ReloadFails(t) => current' = current /\ current'.id # procs[t].id]_vars

\* C1 witness: a notifier-triggered reload has failed while a snapshot is
\* exposed.
C1_Witness ==
    \E t \in CallbackThreads :
        /\ procs[t].pc = "notify"
        /\ procs[t].err # NoErr
        /\ current.id # 0

\* The accumulator after merging the decoded documents `reads`, in order.
RECURSIVE MergeAll(_, _)
MergeAll(acc, reads) ==
    IF reads = <<>> THEN acc
    ELSE MergeAll(merge(acc, [Construct(constructor) EXCEPT
                                 !.val = DocConfig(Head(reads))]).dst,
                  Tail(reads))

\* C2: the snapshot is nil, or the in-order merge of one reload's documents,
\* one per registered loader, into a fresh instance, which passed validation
\* and which no reload in flight still works on.
C2_SnapshotNilOrComplete ==
    \/ current = NoSnapshot
    \/ /\ current.id \in 1 .. nextId
       /\ Len(current.reads) = Len(loaders)
       /\ current.cfg = MergeAll(Construct(constructor), current.reads)
       /\ NoErr \in validate(current.cfg)
       /\ \A t \in Threads :
             procs[t].pc \in {"load", "validate"} =>
                procs[t].id # current.id

\* C2 witness: a snapshot is exposed while another reload has merged only
\* the first of two loaders.
C2_Witness ==
    /\ current.id # 0
    /\ \E t \in Threads :
          procs[t].pc = "load" /\ procs[t].i = 2 /\ procs[t].n = 2

\* Loader j is the last one whose document sets field f.
LastToSet(reads, j, f) ==
    /\ ~LeafIsZero(DocConfig(reads[j]), f)
    /\ \A k \in (j + 1) .. Len(reads) : LeafIsZero(DocConfig(reads[k]), f)

\* C3 as stated: where two loaders both set a field, the snapshot holds the
\* value the later one set.
C3_LastRegisteredWins ==
    current # NoSnapshot =>
        \A f \in Leaves : \A i, j \in 1 .. Len(current.reads) :
            (i < j /\ ~LeafIsZero(DocConfig(current.reads[i]), f)
                   /\ LastToSet(current.reads, j, f))
               => Leaf(current.cfg.val, f) = Leaf(DocConfig(current.reads[j]), f)

\* C3 amended: for a configuration type merged generically (no Merge method
\* of its own) and a scalar field, where two loaders both set the field to a
\* non-zero value, the snapshot holds the value the later one set.
C3_LastRegisteredWinsGeneric ==
    (current # NoSnapshot /\ ~ImplementsMerger(Construct(constructor))) =>
        \A f \in ScalarLeaves : \A i, j \in 1 .. Len(current.reads) :
            (i < j /\ ~LeafIsZero(DocConfig(current.reads[i]), f)
                   /\ LastToSet(current.reads, j, f))
               => Leaf(current.cfg.val, f) = Leaf(DocConfig(current.reads[j]), f)

\* C3 witness: two loaders set Int to 2 and then 1, and the snapshot holds 1.
C3_Witness ==
    /\ constructor = "TestConfig"
    /\ current.reads = <<DocInt2Inner, DocInt1>>
    /\ current.cfg.val.Int = 1

\* The loaders whose merge goroutine t has called, in call order.
MergeCallsOf(t) == SelectSeq(procs[t].log, LAMBDA e : e.e = "merge")

\* What (*TestConfigAsMerger).Merge alone leaves after the documents `reads`.
AfterCustomMerges(reads) ==
    PtrTo("TestConfigAsMerger",
          IF reads = <<>> THEN ZeroConfig
          ELSE WithInt(DocConfig(reads[Len(reads)]).Int + 1))

\* Goroutine t's reload fails in this step with the error of Merge.
MergeFails(t) ==
    /\ procs[t].pc = "load"
    /\ \/ procs'[t].pc = "notify" /\ procs'[t].err = Err("test merge error")
       \/ /\ procs[t].op = "Start"
          /\ procs'[t].pc = "idle"
          /\ lastCall' = [op |-> "Start", err |-> Err("test merge error"),
                          log |-> lastCall'.log]

\* C7: for a type with a Merge method, every accumulator and every snapshot
\* is what the type's Merge alone produces, called once per loader in
\* registration order (nothing of the generic merge shows), and an error of
\* Merge ends the reload, and Start, with the snapshot and the running state
\* as they were.
C7_CustomMergeOnly ==
    /\ [](ImplementsMerger(Construct(constructor)) =>
            /\ current # NoSnapshot =>
                  current.cfg = AfterCustomMerges(current.reads)
            /\ \A t \in Threads :
                  /\ procs[t].pc \in {"load", "validate"} =>
                        /\ procs[t].merged = AfterCustomMerges(procs[t].reads)
                        /\ Len(MergeCallsOf(t)) = Len(procs[t].reads)
                  /\ \A k \in 1 .. Len(MergeCallsOf(t)) :
                        MergeCallsOf(t)[k].l = k)
    /\ [][\A t \in Threads :
            MergeFails(t) =>
               /\ current' = current
               /\ isRunning' = isRunning
               /\ procs[t].op = "Start" => ~isRunning']_vars

\* C7 witness: a reload of a TestConfigAsMerger has failed in Merge while a
\* snapshot made by Merge is exposed.
C7_Witness ==
    /\ constructor = "TestConfigAsMerger"
    /\ current.id # 0
    /\ current.cfg.val = WithInt(3)
    /\ \E t \in CallbackThreads :
          procs[t].pc = "notify" /\ procs[t].err = Err("test merge error")

\* C9: Start on a running manager returns nil and changes nothing: it makes
\* no call (no pre-flight check, Read, reload or Watch) and leaves the
\* snapshot and the running state as they were.
C9_StartWhileRunningIsNoOp ==
    [][(isRunning /\ procs["main"].pc = "idle") =>
          /\ procs'["main"].pc \in {"idle", "stopWatchers"}
          /\ lastCall'.op = "Start" =>
                /\ lastCall' = [op |-> "Start", err |-> NoErr, log |-> <<>>]
                /\ UNCHANGED <<current, isRunning, watchCalls, stopCalls,
                               nextId, procs, loaders>>]_vars

\* C9 witness: Start has returned on a running manager without a call made.
C9_Witness ==
    /\ isRunning
    /\ lastCall = [op |-> "Start", err |-> NoErr, log |-> <<>>]

\* What the pre-flight validation is to reject.
PreflightBad ==
    \/ constructor \in InvalidConstructors
    \/ \E i \in 1 .. Len(validators) : validators[i] = "nil"
    \/ \E n \in DOMAIN namedValidators : namedValidators[n] = "nil"
    \/ Len(loaders) = 0
    \/ \E i \in 1 .. Len(loaders) : ~loaders[i].Source \/ ~loaders[i].Formatter

LoaderCalls == {"Read", "Unmarshal", "merge", "runWatchers"}

\* C10: when the pre-flight validation has something to reject, Start
\* returns an error with no Read, Unmarshal or Watch called, the snapshot
\* unchanged and the manager not running; zero loaders (all else valid) give
\* ErrNoLoadersDefined, a constructor returning a non-zero struct gives
\* ErrConstructorMustReturnZeroStruct.
C10_PreflightGating ==
    [][(procs["main"].pc = "preflight" /\ PreflightBad
           /\ procs'["main"] # procs["main"]) =>
          /\ procs'["main"].pc = "idle"
          /\ lastCall'.op = "Start"
          /\ lastCall'.err # NoErr
          /\ \A k \in 1 .. Len(lastCall'.log) : lastCall'.log[k].e \notin LoaderCalls
          /\ UNCHANGED <<current, watchCalls, nextId, isRunning>>
          /\ ~isRunning'
          /\ constructor = "nonzero" =>
                lastCall'.err = Err("ErrConstructorMustReturnZeroStruct")
          /\ (/\ Len(loaders) = 0
              /\ constructor \in ConfigTypes
              /\ \A i \in 1 .. Len(validators) : validators[i] # "nil"
              /\ \A n \in DOMAIN namedValidators : namedValidators[n] # "nil")
                => lastCall'.err = Err("ErrNoLoadersDefined")]_vars

\* C10 witness: Start has returned ErrNoLoadersDefined.
C10_Witness ==
    /\ lastCall.op = "Start"
    /\ lastCall.err = Err("ErrNoLoadersDefined")
    /\ lastCall.log = <<>>
    /\ current = NoSnapshot
    /\ ~isRunning

\* The error reload returns when the call logged last is the one that failed.
ReloadErrorAfter(e, err) ==
    CASE e = "Read"      -> err = Err("read error")
      [] e = "Unmarshal" -> err = Err("unmarshal error")
      [] e = "merge"     -> err.e \in {"test merge error",
                                       "error converting other config",
                                       "ErrNonPointerArgument",
                                       "ErrNilArguments", "ErrNotSupported",
                                       "ErrDifferentArgumentsTypes"}
      [] e = "validate"  -> err.e \in {"test validation error", "validator",
                                       "named validator"}
      [] OTHER           -> FALSE

StartLog(log, names) == \E k \in 1 .. Len(log) : log[k].e \in names

\* C11: when the reload inside Start fails (Read, Unmarshal, merge or
\* validation), Start returns that error, the manager is still stopped, no
\* Watch has been called by this Start and the snapshot is the one there was
\* before (nil if no earlier reload succeeded); Start goes on to Watch only
\* after its reload has published.
C11_FailedInitialReload ==
    /\ [](procs["main"].pc \in {"runWatchers", "store"} =>
             StartLog(procs["main"].log, {"swap"}))
    /\ [][(/\ procs["main"].op = "Start"
           /\ procs["main"].pc \in {"load", "validate"}
           /\ procs'["main"].pc = "idle") =>
             /\ lastCall'.op = "Start"
             /\ lastCall'.err # NoErr
             /\ lastCall'.log # <<>>
             /\ ReloadErrorAfter(lastCall'.log[Len(lastCall'.log)].e,
                                 lastCall'.err)
             /\ ~StartLog(lastCall'.log, {"swap", "runWatchers", "store"})
             /\ ~isRunning /\ ~isRunning'
             /\ UNCHANGED <<current, watchCalls, pollers>>
             /\ current.id = 0 => Config' = NoSnapshot]_vars

\* C11 witness: Start has returned a validation error of its reload, on a
\* manager that has no snapshot and is not running.
C11_Witness ==
    /\ lastCall.op = "Start"
    /\ lastCall.err = Err("test validation error")
    /\ Config = NoSnapshot
    /\ ~isRunning
    /\ \A l \in LoaderIds : watchCalls[l] = 0
    /\ WatcherLoaders # {}

\* The calls of a Start that succeeds over n loaders, in order.
ExpectedStartLog(n) ==
    [k \in 1 .. (3 * n + 5) |->
        IF k = 1 THEN Event("preflight", 0)
        ELSE IF k <= 3 * n + 1
          THEN Event(CASE (k - 2) % 3 = 0 -> "Read"
                       [] (k - 2) % 3 = 1 -> "Unmarshal"
                       [] OTHER           -> "merge",
                     ((k - 2) \div 3) + 1)
        ELSE IF k = 3 * n + 2 THEN Event("validate", 0)
        ELSE IF k = 3 * n + 3 THEN Event("swap", 0)
        ELSE IF k = 3 * n + 4 THEN Event("runWatchers", 0)
        ELSE Event("store", 0)]

\* C12: a Start that succeeds from the stopped state has made, in order, the
\* pre-flight validation, one reload (each loader read, decoded and merged in
\* turn, validation, one publication of the snapshot), then one Watch on the
\* watcher of every loader that has one and on no other loader, and only
\* then stores isRunning = true.
C12_StartOrder ==
    /\ [](procs["main"].op = "Start" => ~isRunning)
    /\ [][(lastCall'.op = "Start" /\ lastCall'.err = NoErr
              /\ lastCall'.log # <<>>) =>
             /\ lastCall'.log = ExpectedStartLog(Len(loaders))
             /\ procs["main"].pc = "store"
             /\ ~isRunning /\ isRunning']_vars
    /\ [][(procs["main"].pc = "validate" /\ procs'["main"].pc = "runWatchers") =>
             /\ Config'.id = procs["main"].id
             /\ Config'.cfg = procs["main"].merged
             /\ UNCHANGED <<watchCalls, isRunning>>]_vars
    /\ [][(procs["main"].pc = "runWatchers"
              /\ procs'["main"] # procs["main"]) =>
             /\ procs'["main"].pc = "store"
             /\ \A l \in LoaderIds :
                   watchCalls'[l] =
                      IF l <= Len(loaders) /\ loaders[l].Watcher # "nil"
                        THEN watchCalls[l] + 1 ELSE watchCalls[l]
             /\ UNCHANGED <<current, isRunning>>]_vars

\* C12 witness: Start has succeeded over a loader without a watcher and a
\* loader with one, and Watch was called once, on the latter.
C12_Witness ==
    /\ lastCall.op = "Start"
    /\ lastCall.err = NoErr
    /\ lastCall.log = ExpectedStartLog(2)
    /\ isRunning
    /\ Len(loaders) = 2
    /\ loaders[1].Watcher = "nil" /\ watchCalls[1] = 0
    /\ loaders[2].Watcher = "Watcher" /\ watchCalls[2] = 1
    /\ Config.id = 1

\* C15: Stop on a manager that is not running (never started, or stopped
\* already) returns nil and calls Stop on no watcher; a Stop that went through
\* its loop leaves the manager not running, so a second Stop in a row is of
\* that kind.
C15_StopIsIdempotent ==
    /\ [](lastCall.op = "Stop" => ~isRunning)
    /\ [][(~isRunning /\ procs["main"].pc = "idle") =>
             /\ procs'["main"].pc \in {"idle", "preflight"}
             /\ lastCall'.op = "Stop" =>
                   /\ lastCall' = [op |-> "Stop", err |-> NoErr, log |-> <<>>]
                   /\ UNCHANGED <<current, isRunning, watchCalls, stopCalls,
                                  stopClosed, nextId, procs, loaders>>]_vars

\* C15 witness: a second Stop in a row has returned nil, with one Stop call
\* made on the watcher in all.
C15_Witness ==
    /\ ~isRunning
    /\ lastCall = [op |-> "Stop", err |-> NoErr, log |-> <<>>]
    /\ \E l \in WatcherLoaders : stopCalls[l] = 1 /\ watchCalls[l] = 1

\* The loaders an event of the log names, in log order.
LogLoaders(log) == [k \in 1 .. Len(log) |-> log[k].l]

\* The watcher loaders in registration order.
WatcherSeq == SelectSeq([l \in 1 .. Len(loaders) |-> l],
                        LAMBDA l : l \in WatcherLoaders)

StopErrorsIn(log) == {k \in 1 .. Len(log) : log[k].e = "Stop error"}

\* C16: Stop on a running manager calls Stop once on the watcher of every
\* loader that has one, in order and whatever the earlier calls returned; it
\* returns nil iff none of them returned an error, else one error made of
\* all of theirs; either way the manager is not running when it returns.
C16_StopAggregates ==
    /\ [][(procs["main"].pc = "stopWatchers"
              /\ procs'["main"] # procs["main"]) =>
             /\ isRunning
             /\ procs'["main"].pc = "stopped"
             /\ \A l \in LoaderIds :
                   stopCalls'[l] = IF l \in WatcherLoaders
                                     THEN stopCalls[l] + 1 ELSE stopCalls[l]]_vars
    /\ [][(procs["main"].pc = "stopped" /\ procs'["main"] # procs["main"]) =>
             /\ lastCall'.op = "Stop"
             /\ procs'["main"].pc = "idle"
             /\ LogLoaders(lastCall'.log) = WatcherSeq
             /\ \A k \in 1 .. Len(lastCall'.log) :
                   lastCall'.log[k].e \in {"Stop", "Stop error"}
             /\ lastCall'.err = NoErr <=> StopErrorsIn(lastCall'.log) = {}
             /\ lastCall'.err # NoErr =>
                   /\ lastCall'.err.e = "stop running watchers"
                   /\ lastCall'.err.index =
                         Cardinality(StopErrorsIn(lastCall'.log))
             /\ ~isRunning']_vars

\* C16 witness: Stop has returned the error of the first watcher after
\* calling Stop on the second one too, and the manager is not running.
C16_Witness ==
    /\ lastCall.op = "Stop"
    /\ lastCall.log = <<Event("Stop error", 1), Event("Stop", 2)>>
    /\ lastCall.err = [e |-> "stop running watchers", name |-> "", index |-> 1]
    /\ stopCalls[1] = 1 /\ stopCalls[2] = 1
    /\ ~isRunning

\* C17: Stop marks the manager not running before its first Stop call on a
\* watcher, and from the moment Stop is entered no change callback begins a
\* reload: one begins only on a running manager whose Stop is not under way
\* (or while the Start that registered it is still returning).
C17_IntentToStopFirst ==
    /\ [][(procs["main"].pc = "stopWatchers"
              /\ procs'["main"] # procs["main"]) => ~isRunning]_vars
    /\ [][\A t \in CallbackThreads :
            (procs[t].pc = "idle" /\ procs'[t].pc \in {"load", "validate"}) =>
               /\ procs["main"].op # "Stop"
               /\ isRunning \/ procs["main"].op = "Start"]_vars

-----------------------------------------------------------------------------
\* Properties of the change callbacks (SpecDispatch).

\* The callback events a change callback of loader l is to produce on err.
OwnCallback(l, err) ==
    IF err = NoErr
      THEN IF loaders[l].OnUpdateSuccess
             THEN <<[e |-> "OnUpdateSuccess", l |-> l]>> ELSE <<>>
      ELSE IF loaders[l].OnUpdateError
             THEN <<[e |-> "OnUpdateError", l |-> l]>> ELSE <<>>

C14_FailedCallbackReload ==
    /\ [][\A t \in CallbackThreads :
            (procs[t].pc \in {"load", "validate"} /\ procs'[t].pc = "notify"
                /\ procs'[t].err # NoErr) =>
               /\ UNCHANGED <<current, isRunning, nextId>>
               /\ lastCall' = NoCall]_vars
    /\ [][\A t \in CallbackThreads :
            (procs[t].pc = "notify" /\ procs[t].err # NoErr
                /\ procs'[t] # procs[t]) =>
               /\ procs'[t].pc = "idle"
               /\ UNCHANGED <<current, isRunning, nextId>>
               /\ lastCall' =
                     IF loaders[procs[t].l].OnUpdateError
                       THEN [op  |-> "callback", err |-> procs[t].err,
                             log |-> <<Event("OnUpdateError", procs[t].l)>>]
                       ELSE NoCall]_vars
    /\ [][\A t \in CallbackThreads :
            (procs[t].pc = "validate" /\ procs'[t] # procs[t]
                /\ procs[t].merged.val.Int # InvalidInt) =>
               /\ procs'[t].pc = "notify"
               /\ procs'[t].err = NoErr
               /\ Config' = [id |-> procs[t].id, cfg |-> procs[t].merged,
                             reads |-> procs[t].reads]]_vars

\* C14 witness: on a running manager with a snapshot, the reload of a change
\* callback has failed and its loader has no OnUpdateError.
C14_Witness ==
    /\ isRunning
    /\ Config.id = 1
    /\ procs["cb1"].pc = "notify"
    /\ procs["cb1"].err = Err("test validation error")
    /\ ~loaders[procs["cb1"].l].OnUpdateError

-----------------------------------------------------------------------------
\* Properties of the ModTimeWatcher loader over the manager's life (SpecLife,
\* SpecLifeFair).

\* The watcher of loader l has a goroutine that may still invoke the change
\* callback, or that is inside it.
Armed(l) ==
    \/ pollers[l].armed > 0
    \/ \E t \in CallbackThreads : procs[t].pc # "idle" /\ procs[t].l = l

\* ... in a program that has not ended.
Firing(l) == ~Crashed /\ Armed(l)

\* Stop has returned nil after a Stop call on the watcher of loader l.
StopReturnedFor(l) ==
    /\ lastCall.op = "Stop"
    /\ lastCall.err = NoErr
    /\ \E k \in 1 .. Len(lastCall.log) : lastCall.log[k] = Event("Stop", l)

C19_CyclicLifecycle ==
    /\ [](~Crashed)
    /\ [][(lastCall'.op = "Start" /\ lastCall'.err = NoErr
              /\ lastCall'.log # <<>>) =>
             /\ isRunning'
             /\ \A l \in ModTimeLoaders : Armed(l)']_vars

-----------------------------------------------------------------------------
\* Properties of cm.validate called directly (SpecValidate).

\* The calls of c that are calls of registered validator functions.
FuncCalls(c) == SelectSeq(c.calls, LAMBDA x : x # Err("Validate"))

\* Positional validators in registration order, then the named ones: the
\* places of two calls made one after the other.
InFixedOrder(x, y) ==
    \/ x.e = "validator" /\ y.e = "validator" /\ x.index < y.index
    \/ x.e = "validator" /\ y.e = "named validator"
    \/ x.e = "named validator" /\ y.e = "named validator"

\* C20: every call of cm.validate invokes the type's own Validate first and
\* once, when the type has one, and then the registered validator functions
\* in one fixed order, positional ones in registration order and then the
\* named ones, the same in every call; each one runs unless an earlier one
\* returned an error.
C20_ValidationOrder ==
    \A a, b \in 1 .. Len(validateOut) :
       LET c == validateOut[a]
           d == validateOut[b]
       IN  /\ ImplementsValidator(c.config) =>
                 /\ c.calls # <<>>
                 /\ c.calls[1] = Err("Validate")
                 /\ \A k \in 2 .. Len(c.calls) : c.calls[k] # Err("Validate")
           /\ ~ImplementsValidator(c.config) =>
                 \A k \in 1 .. Len(c.calls) : c.calls[k] # Err("Validate")
           /\ \A k \in 1 .. Len(FuncCalls(c)) - 1 :
                 InFixedOrder(FuncCalls(c)[k], FuncCalls(c)[k + 1])
           /\ (c.err = NoErr /\ d.err = NoErr /\ c.config = d.config) =>
                 c.calls = d.calls
           /\ c.err = NoErr =>
                 \A v \in ValidatorFuncs :
                    \E k \in 1 .. Len(c.calls) : c.calls[k] = v

-----------------------------------------------------------------------------
\* Properties of the end of reload, statement by statement (SpecSwap).

\* The reloads that have come to hold cm.mu for writing.
Committed == {acquired[k] : k \in 1 .. Len(acquired)}

\* The run of cm.validate made in the last step.
LastRun == validateOut[1]

\* The error that goroutine t's reload hands on in this step: to the caller
\* of Start, or to the change callback.
HandedOn(t, err) ==
    IF procs[t].op = "Start"
      THEN procs'[t].pc = "idle" /\ lastCall'.op = "Start" /\ lastCall'.err = err
      ELSE procs'[t].pc = "notify" /\ procs'[t].err = err

\* C21: the first validator that fails ends cm.validate and the reload: it is
\* the last validator called, the snapshot is left as it was and is never
\* assigned by that reload, and the error handed on is that validator's, with
\* its name for a named validator and its index for a positional one; a
\* named validator that fails does so after the type's Validate succeeded.
C21_FirstFailureAborts ==
    /\ [][\A t \in Threads :
            (procs[t].pc = "validate" /\ procs'[t] # procs[t]
                /\ validateOut'[1].err # NoErr) =>
               LET run == validateOut'[1]
               IN  /\ HandedOn(t, run.err)
                   /\ current' = current
                   /\ acquired' = acquired
                   /\ mu' = mu
                   /\ procs[t].id \notin Committed
                   /\ run.err.e = "test validation error" =>
                         run.calls = <<Err("Validate")>>
                   /\ run.err.e = "named validator" =>
                         /\ run.err.name \in DOMAIN namedValidators
                         /\ run.calls[Len(run.calls)] = NamedCall(run.err.name)
                         /\ ImplementsValidator(procs[t].merged) =>
                               run.calls[1] = Err("Validate")
                   /\ run.err.e = "validator" =>
                         /\ run.err.index + 1 \in 1 .. Len(validators)
                         /\ run.calls[Len(run.calls)]
                               = PositionalCall(run.err.index + 1)
                   /\ run.err.e \in {"test validation error", "named validator",
                                     "validator"}
                   /\ \A k \in 1 .. (Len(run.calls) - 1) :
                         run.calls[k] # run.calls[Len(run.calls)]]_vars
    /\ [](\A t \in CallbackThreads :
            (procs[t].pc = "notify" /\ procs[t].err # NoErr) =>
               procs[t].id \notin Committed)

\* C21 witness: a change callback's reload has ended on the named validator,
\* called right after the type's Validate, with a snapshot exposed.
C21_Witness ==
    /\ validateOut # <<>>
    /\ LastRun.calls = <<Err("Validate"), NamedCall("n")>>
    /\ LastRun.err = NamedCall("n")
    /\ current.id # 0
    /\ \E t \in CallbackThreads :
          /\ procs[t].pc = "notify"
          /\ procs[t].err = NamedCall("n")
          /\ procs[t].id \notin Committed

-----------------------------------------------------------------------------
\* Properties of reload's loop over the loaders (Spec).

\* The calls reload's loop made on the loaders, in order.
LoaderLog(log) ==
    SelectSeq(log, LAMBDA e : e.e \in {"Read", "Unmarshal", "merge"})

LoadSteps == <<"Read", "Unmarshal", "merge">>

\* Read, Unmarshal and merge of loaders 1 .. k, loader by loader.
ExpectedLoads(k) ==
    [j \in 1 .. 3 * k |-> Event(LoadSteps[((j - 1) % 3) + 1], ((j - 1) \div 3) + 1)]

\* The calls on loader n up to the one that returned err.
FailedLoad(n, err) ==
    IF err = Err("read error") THEN <<Event("Read", n)>>
    ELSE IF err = Err("unmarshal error")
      THEN <<Event("Read", n), Event("Unmarshal", n)>>
    ELSE <<Event("Read", n), Event("Unmarshal", n), Event("merge", n)>>

\* C22: a reload that has come to loader i has called Read, Unmarshal and
\* merge once each on loaders 1 .. i-1, loader by loader in registration
\* order, and nothing on a later loader, and its accumulator is the merge of
\* the documents read, each decoded into a zero-valued instance, into a fresh
\* instance; a reload whose N-th loader fails at Read, Unmarshal or merge is
\* over: Start returns having called nothing on a loader after N.
C22_LoadersInOrder ==
    /\ [](\A t \in Threads :
            procs[t].pc \in {"load", "validate"} =>
               /\ LoaderLog(procs[t].log) = ExpectedLoads(procs[t].i - 1)
               /\ Len(procs[t].reads) = procs[t].i - 1
               /\ procs[t].i <= procs[t].n + 1
               /\ procs[t].n = Len(loaders)
               /\ procs[t].pc = "validate" <=> procs[t].i = procs[t].n + 1
               /\ procs[t].merged
                     = MergeAll(Construct(constructor), procs[t].reads))
    /\ [][\A t \in Threads :
            (procs[t].pc = "load" /\ ReloadFails(t)) =>
               /\ procs'[t].pc \in {"idle", "notify"}
               /\ procs[t].op = "Start" =>
                     LoaderLog(lastCall'.log)
                        = ExpectedLoads(procs[t].i - 1)
                             \o FailedLoad(procs[t].i, lastCall'.err)]_vars

\* C22 witness: Start has failed at the decode of the first of two loaders,
\* and nothing was called on the second.
C22_Witness ==
    /\ Len(loaders) = 2
    /\ lastCall.op = "Start"
    /\ lastCall.err = Err("unmarshal error")
    /\ LoaderLog(lastCall.log) = <<Event("Read", 1), Event("Unmarshal", 1)>>

\* The source of a loader is read anew by every reload: a reload in flight
\* has read from the first loader a document other than the one the snapshot
\* was made from.
C22_WitnessFreshRead ==
    /\ current.id # 0
    /\ \E t \in Threads :
          /\ procs[t].pc \in {"load", "validate"}
          /\ procs[t].i > 1
          /\ procs[t].reads[1] # current.reads[1]

\* Goroutine t is inside reload.
InReload(t) ==
    procs[t].pc \in {"load", "validate", "lock", "locking", "assign", "unlock"}

\* C23: overlapping reloads do not wait for one another before cm.mu.Lock()
\* (one that reads or validates can always go on), each works on an instance
\* of its own, the assignment under the lock exposes the assigning reload's
\* accumulator, and whenever the lock is free the snapshot is the result of
\* the reload whose Lock() returned last, whichever was constructed first.
C23_LastWriterWins ==
    /\ [](\A t \in Threads :
            procs[t].pc \in {"load", "validate"} =>
               ENABLED (Load(t) \/ Validate(t)))
    /\ [](\A t \in Threads :
            InReload(t) =>
               /\ \A u \in Threads \ {t} : InReload(u) => procs[u].id # procs[t].id
               /\ procs[t].pc # "unlock" => current.id # procs[t].id)
    /\ [](mu.held = {} =>
            IF acquired = <<>> THEN current = NoSnapshot
            ELSE current.id = acquired[Len(acquired)])
    /\ [][\A t \in Threads :
            (procs[t].pc = "assign" /\ procs'[t] # procs[t]) =>
               current' = [id |-> procs[t].id, cfg |-> procs[t].merged,
                           reads |-> procs[t].reads]]_vars

\* C23 witness: of two change callbacks' reloads, the one constructed later
\* assigned first; both have finished and the snapshot is the result of the
\* one constructed earlier.
C23_Witness ==
    /\ acquired = <<1, 3, 2>>
    /\ current.id = 2
    /\ \A t \in Threads : ~InReload(t)

\* C24: cm.mu is held for writing by at most one reload, with no reader
\* inside, and only by a reload that stands at the assignment of cm.current
\* or at the deferred Unlock(): never by one that reads, decodes, merges or
\* validates, nor by a goroutine in a callback; the holder can always go on
\* to release it, and so can a reader; while no reload is inside Lock() a
\* call of Config() is let in, whatever the other reloads are doing, and a
\* change callback that calls Config() holds nothing of the lock itself.
C24_LockDiscipline ==
    /\ Cardinality(mu.w) <= 1
    /\ mu.held \subseteq mu.w
    /\ mu.held # {} => mu.r = {}
    /\ \A t \in Threads :
          /\ t \in mu.w <=> procs[t].pc \in {"locking", "assign", "unlock"}
          /\ t \in mu.held <=> procs[t].pc \in {"assign", "unlock"}
          /\ t \in mu.held => ENABLED (Assign(t) \/ MuUnlock(t))
          /\ procs[t].pc = "locking" /\ mu.r = {} => ENABLED MuLocked(t)
    /\ \A g \in ConfigCallers :
          /\ g \in mu.r <=> configCalls[g].pc = "rlocked"
          /\ g \in mu.r => ENABLED ConfigReturn(g)
          /\ (/\ mu.w = {}
              /\ configCalls[g].pc = "idle"
              /\ g \in CallbackThreads => procs[g].pc = "onUpdate")
                => ENABLED ConfigRLock(g)
    /\ \A g \in CallbackThreads :
          procs[g].pc \in {"onUpdate", "notify"} => g \notin mu.w

\* C24 witness: a reader and a change callback hold the lock for reading at
\* the same time, while another change callback's reload is at a Read.
C24_Witness ==
    /\ mu.r = {"r1", "cb1"}
    /\ procs["cb1"].pc = "onUpdate"
    /\ procs["cb2"].pc = "load"

-----------------------------------------------------------------------------
\* Properties of a manager without notifiers (Spec).

\* C25 as stated: once a manager none of whose loaders has a notifier has a
\* snapshot, that snapshot stays.
C25_StaticSnapshotStays ==
    [][(WatcherLoaders = {} /\ current # NoSnapshot) => current' = current]_vars

\* C25 amended: on a manager none of whose loaders has a notifier no Watch is
\* called and no change callback runs; while it is running no step changes
\* the snapshot; the snapshot changes only at the end of the reload of a
\* Start called while the manager was not running (the first Start, or a
\* Start after Stop).
C25_StaticSnapshotStaysWhileRunning ==
    /\ [](WatcherLoaders = {} =>
            /\ \A l \in LoaderIds : watchCalls[l] = 0
            /\ \A t \in CallbackThreads : procs[t].pc = "idle")
    /\ [][WatcherLoaders = {} =>
            /\ isRunning => current' = current
            /\ current' # current =>
                  /\ procs["main"].op = "Start"
                  /\ procs["main"].pc = "validate"
                  /\ ~isRunning
                  /\ current'.id = procs["main"].id]_vars

\* C25 witness: a manager of two loaders without notifiers is running on the
\* snapshot of its second Start.
C25_Witness ==
    /\ Len(loaders) = 2
    /\ WatcherLoaders = {}
    /\ isRunning
    /\ current.id = 2
    /\ lastCall.op = "Start"

-----------------------------------------------------------------------------
\* Properties of the instances handed out (SpecSwap).

\* Goroutine t's reload may still write to its accumulator.
Writing(t) == procs[t].pc \in {"load", "validate", "lock", "locking", "assign"}

\* C26: every assignment of cm.current exposes an instance that was never
\* exposed before and differs from the one it replaces; as long as the same
\* instance is exposed its content is the same; and no reload that may still
\* write to its accumulator (to merge, decode into or validate it, whether it
\* goes on to succeed or to fail) works on the exposed instance or on an
\* instance that Config() has returned to a reader.
C26_ReplacedWholesale ==
    /\ [](\A j, k \in 1 .. Len(acquired) : j # k => acquired[j] # acquired[k])
    /\ [](\A t \in Threads :
            Writing(t) =>
               /\ procs[t].id # current.id
               /\ procs[t].id \in 1 .. nextId
               /\ \A g \in Readers : procs[t].id # configCalls[g].got.id)
    /\ [](\A g \in Readers :
            configCalls[g].got.id = current.id => configCalls[g].got = current)
    /\ [][/\ current'.id = current.id => current' = current
          /\ current' # current =>
                /\ current'.id \notin {current.id} \cup {0}
                /\ \E t \in Threads :
                      /\ procs[t].pc = "assign"
                      /\ current'.id = procs[t].id
                      /\ current'.cfg = procs[t].merged
          /\ \A g \in Readers :
                configCalls'[g].got # configCalls[g].got =>
                   /\ configCalls[g].pc = "rlocked"
                   /\ configCalls'[g].got = current]_vars

\* C26 witness: a reader holds the instance of the first reload with its
\* content, a second reload has replaced it by an instance of other content,
\* and a third reload has failed.
C26_Witness ==
    /\ configCalls["r1"].got.id = 1
    /\ configCalls["r1"].got.cfg.val = DocConfig(DocInt1)
    /\ current.id = 2
    /\ current.cfg.val = DocConfig(DocInt2Inner)
    /\ \E t \in CallbackThreads :
          procs[t].pc = "notify" /\ procs[t].err # NoErr /\ procs[t].id = 3

\* The reloads whose Lock() returned at or after that of reload id.
AcquiredSince(id) ==
    {acquired[j] : j \in {j \in 1 .. Len(acquired) :
                            \E k \in 1 .. j : acquired[k] = id}}

\* Change callback t stands in or after its loader's OnUpdateSuccess.
InOnUpdateSuccess(t) ==
    \/ procs[t].pc = "onUpdate"
    \/ procs[t].pc = "notify" /\ procs[t].err = NoErr

\* C27: when a change callback comes to OnUpdateSuccess, its reload has taken
\* the lock, assigned the snapshot and released the lock; the snapshot
\* exposed from then on, and what a Config() called inside OnUpdateSuccess
\* returns, is the result of that reload or of one that took the lock later;
\* when a change callback comes to OnUpdateError, its reload has never taken
\* the lock, and the failing step left the snapshot as it was.
C27_CallbacksAfterSwap ==
    /\ [](\A t \in CallbackThreads :
            /\ InOnUpdateSuccess(t) =>
                  /\ procs[t].id \in Committed
                  /\ t \notin mu.w
                  /\ current.id \in AcquiredSince(procs[t].id)
            /\ (procs[t].pc = "notify" /\ procs[t].err # NoErr) =>
                  /\ procs[t].id \notin Committed
                  /\ current.id # procs[t].id)
    /\ [][\A t \in CallbackThreads :
            /\ (procs[t].pc = "onUpdate" /\ procs'[t].pc = "notify") =>
                  /\ lastCall'.op = "Config"
                  /\ lastCall'.log[1].l \in AcquiredSince(procs[t].id)
            /\ (procs[t].pc = "notify" /\ procs'[t].pc = "idle") =>
                  /\ lastCall'.op = "callback"
                  /\ lastCall'.err = procs[t].err
                  /\ lastCall'.log =
                        <<Event(IF procs[t].err = NoErr THEN "OnUpdateSuccess"
                                ELSE "OnUpdateError", procs[t].l)>>
                  /\ current' = current
            /\ (procs'[t].pc = "notify" /\ procs'[t].err # NoErr
                   /\ procs[t].pc # "notify") => current' = current]_vars

\* C27 witness: inside OnUpdateSuccess, Config() has returned the result of
\* a reload that took the lock after the one the callback reports.
C27_Witness ==
    /\ lastCall.op = "Config"
    /\ lastCall.log[1].l = 3
    /\ \E t \in CallbackThreads :
          /\ procs[t].pc = "notify"
          /\ procs[t].err = NoErr
          /\ procs[t].id = 2
          /\ acquired = <<1, 2, 3>>
          /\ \A u \in CallbackThreads \ {t} : procs[u].pc = "onUpdate"
          /\ configCalls["r1"] = IdleReader

-----------------------------------------------------------------------------
\* Properties of pointer fields under cm.merge called directly (SpecMerge).

\* The pointee of InnerPtr after a merge of two non-nil pointers: every field
\* takes incoming's value where that is non-zero and keeps its own otherwise.
InnerPtrRecursed ==
    /\ ~IsNilPtr(Merged.InnerPtr)
    /\ \A f \in {"Int", "String"} :
          Merged.InnerPtr[1][f] =
             IF ArgSrc.InnerPtr[1][f] # ZeroInner[f]
               THEN ArgSrc.InnerPtr[1][f] ELSE ArgDst.InnerPtr[1][f]

\* What C28 says of every case but two non-nil pointers to scalars.
PointerRules ==
    /\ \A f \in {"IntPtr", "InnerPtr"} :
          /\ (IsNilPtr(ArgDst[f]) /\ ~IsNilPtr(ArgSrc[f])) => Merged[f] = ArgSrc[f]
          /\ IsNilPtr(ArgSrc[f]) => Merged[f] = ArgDst[f]
    /\ (~IsNilPtr(ArgDst.InnerPtr) /\ ~IsNilPtr(ArgSrc.InnerPtr))
          => InnerPtrRecursed

\* C28 as stated: a non-nil incoming pointer replaces a nil one; two non-nil
\* pointers to structs are merged field by field; of two non-nil pointers to
\* scalars the incoming pointee wins; a nil incoming pointer changes nothing.
C28_PointerFields ==
    GenericCall =>
        /\ PointerRules
        /\ (~IsNilPtr(ArgDst.IntPtr) /\ ~IsNilPtr(ArgSrc.IntPtr))
              => Merged.IntPtr = ArgSrc.IntPtr

\* C28 amended: as stated, except that of two non-nil pointers to scalars the
\* incoming pointee wins only when it is non-zero; a zero incoming pointee
\* leaves the accumulator's pointee as it was.
C28_PointerFieldsNonZeroPointee ==
    GenericCall =>
        /\ mergeOut.err = NoErr
        /\ PointerRules
        /\ (~IsNilPtr(ArgDst.IntPtr) /\ ~IsNilPtr(ArgSrc.IntPtr))
              => /\ ~IsNilPtr(Merged.IntPtr)
                 /\ Merged.IntPtr[1] = IF ArgSrc.IntPtr[1] # 0
                                         THEN ArgSrc.IntPtr[1]
                                         ELSE ArgDst.IntPtr[1]

\* C28 witness: two non-nil pointers to structs were merged, one field taken
\* from incoming and one kept.
C28_Witness ==
    /\ GenericCall
    /\ ArgDst.InnerPtr = Ptr([Int |-> 0, String |-> "s"])
    /\ ArgSrc.InnerPtr = Ptr([Int |-> 1, String |-> ""])
    /\ Merged.InnerPtr = Ptr([Int |-> 1, String |-> "s"])

-----------------------------------------------------------------------------
\* Properties of the callbacks around Start (SpecDispatch).

CallbackNames == {"OnUpdateSuccess", "OnUpdateError"}

\* C29: Start never comes to a loader's callback: what it returns, on success
\* or on a failed reload, holds no call of OnUpdateSuccess or OnUpdateError;
\* a loader's callback is only ever invoked by a change callback goroutine at
\* the end of its own reload, on a notifier that Watch was called on.
C29_NoCallbackFromStart ==
    /\ [](\A t \in Callers :
            /\ procs[t].pc # "notify"
            /\ procs[t].op # "callback"
            /\ \A k \in 1 .. Len(procs[t].log) :
                  procs[t].log[k].e \notin CallbackNames)
    /\ [](lastCall.op = "Start" =>
            \A k \in 1 .. Len(lastCall.log) :
               lastCall.log[k].e \notin CallbackNames)
    /\ [][(\E k \in 1 .. Len(lastCall'.log) :
              lastCall'.log[k].e \in CallbackNames) =>
            /\ lastCall'.op = "callback"
            /\ \E t \in CallbackThreads :
                  /\ procs[t].pc = "notify"
                  /\ procs[t].op = "callback"
                  /\ procs'[t].pc = "idle"
                  /\ watchCalls[procs[t].l] > 0
            /\ \A t \in Callers : procs'[t] = procs[t]]_vars

\* C29 witness: Start has returned the error of its reload on a manager
\* whose loaders all have both callbacks.
C29_Witness ==
    /\ lastCall.op = "Start"
    /\ lastCall.err = Err("read error")
    /\ Len(loaders) = 2
    /\ \A l \in 1 .. Len(loaders) :
          loaders[l].OnUpdateSuccess /\ loaders[l].OnUpdateError

-----------------------------------------------------------------------------
\* Properties of the pre-flight validation (Spec).

\* The condition whose violation the sentinel error e reports holds.
SentinelCondition(e) ==
    CASE e = "ErrConstructorIsNil" -> constructor # "nil"
      [] e = "ErrConstructorMustBePointer" ->
            constructor \notin {"value", "ptrInt"}
      [] e = "ErrConstructorMustReturnZeroStruct" -> constructor # "nonzero"
      [] e = "ErrValidatorIsNil" ->
            /\ \A i \in 1 .. Len(validators) : validators[i] # "nil"
            /\ \A n \in DOMAIN namedValidators : namedValidators[n] # "nil"
      [] e = "ErrNoLoadersDefined" -> Len(loaders) > 0
      [] e = "ErrSourceIsNil" -> \A i \in 1 .. Len(loaders) : loaders[i].Source
      [] e = "ErrFormatterIsNil" ->
            \A i \in 1 .. Len(loaders) : loaders[i].Formatter
      [] OTHER -> TRUE

Sentinels == {"ErrConstructorIsNil", "ErrConstructorMustBePointer",
              "ErrConstructorMustReturnZeroStruct", "ErrValidatorIsNil",
              "ErrNoLoadersDefined", "ErrSourceIsNil", "ErrFormatterIsNil"}

\* C30: the pre-flight validation of Start succeeds, and Start goes on to
\* its reload, exactly when the constructor is not nil and returns a pointer
\* to a zero-valued struct, no positional or named validator is nil, there is
\* a loader, and every loader has a source and a formatter; when it fails,
\* Start returns a sentinel error whose condition is violated.
C30_PreflightIff ==
    [][(procs["main"].pc = "preflight" /\ procs'["main"] # procs["main"]) =>
          /\ ~PreflightBad <=> procs'["main"].pc \in {"load", "validate"}
          /\ PreflightBad <=>
                /\ procs'["main"].pc = "idle"
                /\ lastCall'.op = "Start"
                /\ lastCall'.err.e \in Sentinels
                /\ ~SentinelCondition(lastCall'.err.e)
          /\ ~PreflightBad =>
                \A e \in Sentinels : SentinelCondition(e)]_vars

\* C30 witness: the pre-flight validation has rejected a manager whose only
\* fault is a loader without a formatter, after a sound first loader.
C30_Witness ==
    /\ lastCall.op = "Start"
    /\ lastCall.err = Err("ErrFormatterIsNil")
    /\ Len(loaders) = 2
    /\ loaders[1].Source /\ loaders[1].Formatter
    /\ loaders[2].Source /\ ~loaders[2].Formatter

-----------------------------------------------------------------------------
\* Properties of a ModTimeWatcher on its own (SpecWatch).

\* fw.lastMod as poll k found it.
Baseline(k) == IF k = 1 THEN ZeroTime ELSE pollLog[k - 1].lastMod

\* The polls whose ModTime() call succeeded.
Observed == {k \in 1 .. Len(pollLog) : ~pollLog[k].res.err}

\* The polls whose ModTime() call succeeded with a time that is not the zero
\* time.
ObservedSet == {k \in Observed : pollLog[k].res.t # ZeroTime}

\* Poll k only establishes the baseline.
OnlyEstablishes(k) ==
    /\ ~pollLog[k].called
    /\ pollLog[k].lastMod = pollLog[k].res.t

\* Poll k, made on an established baseline: the callback is invoked exactly
\* when the observed time is strictly later, and the baseline advances to it.
Detects(k) ==
    /\ pollLog[k].called <=> pollLog[k].res.t > Baseline(k)
    /\ pollLog[k].lastMod = IF pollLog[k].called THEN pollLog[k].res.t
                            ELSE Baseline(k)

\* C31: the first poll that observes a modification time only establishes
\* the baseline and invokes no callback; every later poll that observes one
\* invokes the callback, once, exactly when that time is strictly later than
\* the baseline, which then advances to it.
C31_ChangeDetection ==
    \A k \in Observed :
        IF k = Min(Observed) THEN OnlyEstablishes(k) ELSE Detects(k)

\* C31, amended: the same of the first poll that observes a modification time
\* other than the zero time, and of the polls after it; a poll that observes
\* the zero time before that invokes no callback and leaves the baseline unset.
C31_ChangeDetectionNonZero ==
    /\ \A k \in ObservedSet :
          IF k = Min(ObservedSet) THEN OnlyEstablishes(k) ELSE Detects(k)
    /\ \A k \in Observed :
          (ObservedSet = {} \/ k < Min(ObservedSet))
             => ~pollLog[k].called /\ pollLog[k].lastMod = ZeroTime

\* C31 witness: three polls have observed a time, the same one later, and
\* that one again: baseline, callback, nothing.
C31_Witness ==
    /\ Len(pollLog) = 3
    /\ pollLog[1].res = ModTimeOk(1) /\ ~pollLog[1].called
    /\ pollLog[2].res = ModTimeOk(2) /\ pollLog[2].called
    /\ pollLog[3].res = ModTimeOk(2) /\ ~pollLog[3].called
    /\ lastMod = 2

\* The polls whose ModTime() call failed.
Failed == {k \in 1 .. Len(pollLog) : pollLog[k].res.err}

\* C32: a poll whose ModTime() fails invokes no callback and leaves the
\* baseline as it was, and the goroutine goes on polling (it is in its select
\* again, and leaves it only through the stop channel); the poll after it, if
\* it observes a time strictly later than the established baseline, invokes
\* the callback.
C32_ErrorsIgnored ==
    /\ \A k \in Failed :
          /\ ~pollLog[k].called
          /\ pollLog[k].lastMod = Baseline(k)
          /\ k < Len(pollLog) /\ ~pollLog[k + 1].res.err
             /\ Baseline(k) # ZeroTime /\ pollLog[k + 1].res.t > Baseline(k)
                => pollLog[k + 1].called /\ pollLog[k + 1].lastMod = pollLog[k + 1].res.t
    /\ (Len(pollLog) \in Failed /\ ~stopClosed[1]) =>
          /\ pollers[1].armed = 1
          /\ Len(pollLog) < MaxPolls => ENABLED PollTick(ModTimeOk(MaxTime))

\* C32 witness: a baseline is observed, the next ModTime() fails, and the
\* poll after that observes a later time and invokes the callback.
C32_Witness ==
    /\ Len(pollLog) = 3
    /\ pollLog[1].res = ModTimeOk(1)
    /\ pollLog[2].res = ModTimeFail /\ ~pollLog[2].called
    /\ pollLog[3].res = ModTimeOk(3) /\ pollLog[3].called
    /\ lastMod = 3

-----------------------------------------------------------------------------
\* Properties of EnvFormatter.parseRawIntoMap called directly (SpecParse).

\* The positions around the lines of raw: before its first byte, at each
\* newline, after its last byte.
Breaks(raw) ==
    {0, Len(raw) + 1} \cup {i \in 1 .. Len(raw) : raw[i] = "\n"}

\* The lines of raw, each as the pair of breaks around it.
LineSpans(raw) ==
    {sp \in Breaks(raw) \X Breaks(raw) :
        /\ sp[1] < sp[2]
        /\ \A b \in Breaks(raw) : ~(sp[1] < b /\ b < sp[2])}

\* The equal signs of a line, by position in raw.
EqualSigns(raw, sp) == {p \in (sp[1] + 1) .. (sp[2] - 1) : raw[p] = "="}

\* The lines that contain an equal sign (and so are not empty).
Qualifying(raw) == {sp \in LineSpans(raw) : EqualSigns(raw, sp) # {}}

\* The text of a line before its first equal sign, and everything after it.
KeyOf(raw, sp) == SubSeq(raw, sp[1] + 1, Min(EqualSigns(raw, sp)) - 1)

LineValue(raw, sp) == SubSeq(raw, Min(EqualSigns(raw, sp)) + 1, sp[2] - 1)

\* The last line of raw that gives key k.
LastLineOf(raw, k) ==
    CHOOSE sp \in Qualifying(raw) :
        /\ KeyOf(raw, sp) = k
        /\ \A other \in Qualifying(raw) :
              KeyOf(raw, other) = k => other[1] <= sp[1]

\* C33: parseRawIntoMap returns a non-nil map whose keys are the texts before
\* the first equal sign of the lines that contain one, each mapped to
\* everything after that equal sign in the last line that gives the key;
\* empty lines and lines without an equal sign add nothing.
C33_ParseRawIntoMap ==
    parseOut.done =>
        /\ ~parseOut.res.nil
        /\ DOMAIN parseOut.res.m =
              {KeyOf(parseArgs, sp) : sp \in Qualifying(parseArgs)}
        /\ \A k \in DOMAIN parseOut.res.m :
              parseOut.res.m[k] = LineValue(parseArgs, LastLineOf(parseArgs, k))

\* C33 witness: "a==\na= " has been parsed: the key a twice, first with a
\* value that holds an equal sign, last with a space, which is the one kept.
C33_Witness ==
    /\ parseOut.done
    /\ parseArgs = <<"a", "=", "=", "\n", "a", "=", " ">>
    /\ parseOut.res.m = [k \in {<<"a">>} |-> <<" ">>]

-----------------------------------------------------------------------------
\* Field by field: what a successful reload leaves in the snapshot (Spec).

\* The loaders of a reload whose decoded document has a non-zero field f.
SettersOf(reads, f) ==
    {j \in 1 .. Len(reads) : ~LeafIsZero(DocConfig(reads[j]), f)}

Max(S) == CHOOSE x \in S : \A y \in S : y <= x

\* Every scalar field of the snapshot holds what the last loader that decoded
\* a non-zero value for it decoded, or the zero value.
FieldLevel ==
    (current # NoSnapshot /\ ~ImplementsMerger(Construct(constructor))) =>
        \A f \in ScalarLeaves :
            Leaf(current.cfg.val, f) =
                IF SettersOf(current.reads, f) = {} THEN Leaf(ZeroConfig, f)
                ELSE Leaf(DocConfig(current.reads[
                              Max(SettersOf(current.reads, f))]), f)

\* C34: after a successful reload of a type merged generically, every scalar
\* field of the snapshot holds what the highest-index loader with a non-zero
\* decoded value for it decoded, and the zero value when no loader decoded a
\* non-zero one: a later loader's zero never replaces an earlier non-zero.
\* The snapshot is nil until the first successful reload, so the property is
\* stated of every step that publishes a snapshot.
C34_FieldLevel == [][current' # current => FieldLevel']_vars

\* C34 witness: the first loader decoded Int 2 and Inner.String "s", the
\* second Int 1 and an empty Inner.String: the snapshot holds Int 1 from the
\* second and keeps "s" from the first.
C34_Witness ==
    /\ constructor = "TestConfig"
    /\ current.reads = <<DocInt2Inner, DocInt1>>
    /\ current.cfg.val.Int = 1
    /\ current.cfg.val.Inner.String = "s"
    /\ DocConfig(DocInt1).Inner.String = ""

-----------------------------------------------------------------------------
\* The snapshot of a running manager (Spec).

\* C35: a running manager has a snapshot. The flag is set only by a Start
\* whose reload has published one, and no step of any operation (a failed
\* reload of a change callback, Stop, a later Start) takes a published
\* snapshot back to nil.
C35_RunningHasSnapshot ==
    /\ [](isRunning => current # NoSnapshot)
    /\ [][(~isRunning /\ isRunning') =>
             /\ current # NoSnapshot
             /\ current' = current
             /\ lastCall'.op = "Start" /\ lastCall'.err = NoErr]_vars
    /\ [][current # NoSnapshot => current' # NoSnapshot]_vars

\* C35 witness: on a running manager the reload of a change callback has
\* failed and the callback is about to report the error; the snapshot of the
\* earlier reload is there.
C35_Witness ==
    /\ isRunning
    /\ current # NoSnapshot
    /\ \E t \in CallbackThreads :
          /\ procs[t].pc = "notify"
          /\ procs[t].err # NoErr

-----------------------------------------------------------------------------
\* Concurrent Start calls (SpecRace).

\* The Start calls that have begun their reload and have not returned.
Starting ==
    {t \in ConcurrentCallers :
        procs[t].op = "Start"
        /\ procs[t].pc \in {"load", "validate", "runWatchers", "store"}}

\* C36: when two Start calls run at once on a manager that was never
\* started, the start-up work is done once: no two of them are in it
\* together, the snapshot the initial reload published is not replaced by
\* another initial reload, and no notifier has Watch called on it twice or
\* is left with two polling goroutines.
C36_StartOnce ==
    /\ [](Cardinality(Starting) <= 1)
    /\ [](\A l \in LoaderIds :
             /\ watchCalls[l] <= 1
             /\ pollers[l].armed + pollers[l].late <= 1)
    /\ [][current # NoSnapshot => current' = current]_vars

\* C36, amended: a Start call made once another one has returned nil, so
\* that the manager is running, returns nil at once: it does not enter the
\* start-up work, and while no earlier call is still in it nothing reloads,
\* no Watch is called and no polling goroutine is added.
C36_StartAfterStartOnce ==
    /\ [][isRunning =>
             \A t \in ConcurrentCallers :
                 procs[t].pc = "idle" => procs'[t].pc = "idle"]_vars
    /\ [][(isRunning /\ \A t \in ConcurrentCallers : procs[t].pc = "idle") =>
             /\ UNCHANGED <<current, nextId, watchCalls, pollers, isRunning>>
             /\ lastCall' = [op |-> "Start", err |-> NoErr, log |-> <<>>]]_vars

\* C36 witness: one Start has done the start-up work, on a ModTimeWatcher
\* loader, and a Start made after it has returned nil having done nothing.
C36_Witness ==
    /\ isRunning
    /\ lastCall = [op |-> "Start", err |-> NoErr, log |-> <<>>]
    /\ \A t \in ConcurrentCallers : procs[t].pc = "idle"
    /\ nextId = 1
    /\ Len(loaders) = 1
    /\ watchCalls[1] = 1
    /\ pollers[1].armed = 1

-----------------------------------------------------------------------------
\* Stop calls and Watch calls on a notifier (SpecLate).

\* C37: the manager has called Stop on no notifier more often than it has
\* called Watch on it, whatever Start, Stop and AddLoader calls were made,
\* AddLoader after Start and overlapping Stop calls among them.
C37_StopsOnlyArmed ==
    \A l \in LoaderIds : stopCalls[l] <= watchCalls[l]

-----------------------------------------------------------------------------
\* No lost update with a ModTimeWatcher loader (SpecPollFair).

\* A poll that observed modification time m, or a later one, has invoked the
\* change callback.
Noticed(m) ==
    /\ pollLog # <<>>
    /\ pollLog[1].called
    /\ pollLog[1].res.t >= m

\* C38: every modification of the file made after the initial reload has read
\* it, one made before the watcher's first poll included, is followed in the
\* end by a poll that invokes the change callback (which reloads), as long as
\* polls succeed and the manager is not stopped.
C38_NoLostUpdate ==
    \A m \in ZeroTime .. MaxTime : m > InitialModTime => ((modTime = m) ~> Noticed(m))

-----------------------------------------------------------------------------
\* What Stop leaves alone (Spec).

\* This step is a step of goroutine t's Stop call: the call, its loop over
\* the watchers, or its return.
StopStep(t) ==
    \/ procs'[t] # procs[t] /\ (procs[t].op = "Stop" \/ procs'[t].op = "Stop")
    \/ procs[t].pc = "idle" /\ procs'[t].pc = "idle" /\ lastCall'.op = "Stop"

\* C39: no step of Stop changes the snapshot, the loader list or the
\* validators, whether Stop returns nil or the errors of the notifiers it
\* stopped: Config() right after Stop returns what it returned right before.
C39_StopLeavesSnapshot ==
    [][\A t \in Callers :
          StopStep(t) =>
             /\ Config' = Config
             /\ UNCHANGED <<current, loaders, validators, namedValidators,
                            constructor>>]_vars

\* C39 witness: Stop has returned the errors of the notifiers' Stop calls, the
\* manager is stopped, and the snapshot of the last reload is there.
C39_Witness ==
    /\ lastCall.op = "Stop"
    /\ lastCall.err # NoErr
    /\ \E k \in 1 .. Len(lastCall.log) : lastCall.log[k].e = "Stop error"
    /\ ~isRunning
    /\ Config # NoSnapshot
    /\ Config.cfg.val.Int = 1

-----------------------------------------------------------------------------
\* The validators the options registered, and the ones a validation runs
\* (SpecOptions).

\* The function a call of cm.validate invoked: a registered one, or the
\* type's own Validate.
CalledFunc(c) ==
    IF c.e = "named validator" THEN namedValidators[c.name]
    ELSE IF c.e = "validator" THEN validators[c.index + 1]
    ELSE "Validate"

\* How many times a run of cm.validate invoked function v.
TimesCalled(run, v) ==
    Cardinality({k \in 1 .. Len(run.calls) : CalledFunc(run.calls[k]) = v})

\* The manager holds function v, in its list or in its map.
Retained(v) ==
    \/ \E i \in 1 .. Len(validators) : validators[i] = v
    \/ \E n \in DOMAIN namedValidators : namedValidators[n] = v

\* C40: every function an option passed at construction is held by the
\* manager, and every validation that returns nil has invoked it exactly
\* once, two named validators registered under one name included.
C40_EveryValidatorRuns ==
    \A i \in 1 .. Len(opts) :
        /\ Retained(opts[i].v)
        /\ \A k \in 1 .. Len(validateOut) :
              validateOut[k].err = NoErr =>
                 TimesCalled(validateOut[k], opts[i].v) = 1

====
